---- MODULE Spec2Model ----
(***************************************************************************)
(* Model of the job scraper's crawl-and-extract engine (the final          *)
(* revision of the scraper, src/unnamed/part_006).                         *)
(*                                                                         *)
(* Time is counted in whole seconds.  The program reads the clock only to  *)
(* take differences (system_clock::now() - last_request), so every time    *)
(* point is kept as its age, the number of seconds since it was taken,     *)
(* and a sleep adds its length to every age.  Ages saturate at Horizon,    *)
(* which is larger than every delay an age is compared with.  Sleeps given *)
(* in milliseconds are rounded down to seconds.  A request takes no time.  *)
(***************************************************************************)
EXTENDS Integers, Sequences, FiniteSets, TLC

VARIABLES
    rate_limits,  \* std::map<std::string, RateLimitInfo> rate_limits
    pc,           \* position of the fetcher: "idle", "perform", "exit"
    call,         \* frame of the fetch_page call in progress; codes: the status of
                  \* each attempt so far, 0 for a transport failure
    result,       \* how the last fetch call ended, and with which body
    nfetch,       \* number of fetch calls and site changes so far
    focus,        \* the site the crawl is working on
    last_sent,    \* per site: age of the last HTTP request sent (-1: none yet)
    consulted,    \* enforce_rate_limits ran since the last HTTP attempt
    attempt,      \* the last HTTP attempt: site, outcome, age of the request before it
    req           \* the last computation of required_delay in enforce_rate_limits

fvars == <<rate_limits, pc, call, result, nfetch, focus, last_sent, consulted, attempt, req>>

VARIABLES
    output_cfg,   \* OutputConfig: max_jobs
    search_cfg,   \* SearchConfig: target_site, keywords
    sites,        \* std::vector<SiteConfig> sites of main, by name, in processing order
    all_jobs,     \* std::vector<json> all_jobs of the cycle in progress
    unique_jobs,  \* what the last finished cycle handed to save_to_json
    failed,       \* the search page fetches of the cycle that threw: site, page, pass
    main,         \* position of main: which loop over sites (pass), which site (idx),
                  \* which page, how many containers of the page are still to come
    hist          \* when kept (on): the search pages fetched in the cycle so far, as
                  \* the processors print them, and for each record of all_jobs the
                  \* page it was found on

cvars == <<output_cfg, search_cfg, sites, all_jobs, unique_jobs, failed, main, hist>>

VARIABLES
    tree,         \* the parsed document: its nodes in document order, each with its parent
    root,         \* GumboNode *n, the node a selector search or an extraction starts from
    site_cfg,     \* SiteConfig handed to scrape_details
    query,        \* the tag and the selector handed to find_nodes
    out,          \* std::vector<GumboNode *> out of the last find_nodes call
    scraped       \* what the last scrape_details call returned

xvars == <<tree, root, site_cfg, query, out, scraped>>

VARIABLES
    args,         \* the arguments of a function taken on its own (normalize_url,
                  \* clean_text, the sleeps of the retry loop)
    ret           \* what the call returned: << >> before it returns, then <<value>>

tvars == <<args, ret>>

VARIABLES
    failure_count,  \* static int failure_count of fetch_dice_job_details
    success_count,  \* static int success_count of fetch_dice_job_details
    reset_session,  \* static bool reset_session of fetch_dice_job_details
    dice            \* the calls of fetch_dice_job_details so far: how many, how many
                    \* in a row returned no description before the last one
                    \* started (before) and up to now (streak), whether the
                    \* last one paused and cleared the counter (reset)

dvars == <<failure_count, success_count, reset_session, dice>>

vars == <<fvars, cvars, xvars, tvars, dvars>>

-----------------------------------------------------------------------------
(* Bounds of the model *)

\* number of fetch calls and site changes in one behaviour
MaxFetches == 4
\* ages saturate here
Horizon == 7
\* number of calls of fetch_dice_job_details in one behaviour
MaxDiceFetches == 6

-----------------------------------------------------------------------------
(* Program constants *)

Retries == 3
InitialDelay == 5
DefaultBase == 5
LinkedInBase == 30
IndeedBase == 15
DiceSimplyHiredBase == 3
JitterMod == 5
ExitStreak == 3
HourSeconds == 3600
LinkedInDelay == 3
SimplyHiredDelay == 6
DiceDelay == 5

SiteNames == {"LinkedIn", "SimplyHired", "Dice"}

CURLE_OK == "CURLE_OK"
CurlCodes == {CURLE_OK, "CURLE_COULDNT_CONNECT"}
HttpCodes == {200, 403, 429, 500, 999}

\* what one curl_easy_perform can report
Outcomes == [res : {CURLE_OK}, http_code : HttpCodes]
              \cup [res : CurlCodes \ {CURLE_OK}, http_code : {0}]

\* std::rand() % n; the draws followed are the least and the greatest value
RandMod(n) == {0, n - 1}

NoBody == [attempt |-> 0, http_code |-> 0]

-----------------------------------------------------------------------------
(* Clock *)

Min(a, b) == IF a < b THEN a ELSE b

\* an age d seconds later
Older(a, d) == IF a < 0 THEN a ELSE Min(a + d, Horizon)

\* rate_limits after d seconds went by
Tick(rl, d) ==
    [s \in DOMAIN rl |-> [rl[s] EXCEPT !.last_request = Older(@, d)]]

TickSent(ls, d) == [s \in DOMAIN ls |-> Older(ls[s], d)]

-----------------------------------------------------------------------------
(* Site descriptors *)

\* SiteConfig::delay of the three configured sites
ConfigDelay(site) ==
    CASE site = "LinkedIn" -> LinkedInDelay
      [] site = "SimplyHired" -> SimplyHiredDelay
      [] site = "Dice" -> DiceDelay

-----------------------------------------------------------------------------
(* Rate limiter *)

\* default-constructed RateLimitInfo as enforce_rate_limits initialises it
NewInfo ==
    [delay |-> InitialDelay,
     consecutive_successes |-> 0,
     consecutive_failures |-> 0,
     last_request |-> Min(HourSeconds, Horizon),
     backoff_mode |-> FALSE]

\* rate_limits[site_name]: std::map::operator[] creates a missing entry
Entry(rl, site) ==
    IF site \in DOMAIN rl THEN rl
    ELSE [s \in DOMAIN rl \cup {site} |-> IF s = site THEN NewInfo ELSE rl[s]]

\* the site-specific delay chosen in enforce_rate_limits
BaseDelay(site_name) ==
    IF site_name = "LinkedIn" THEN LinkedInBase
    ELSE IF site_name = "Indeed" THEN IndeedBase
    ELSE IF site_name = "Dice" \/ site_name = "SimplyHired" THEN DiceSimplyHiredBase
    ELSE DefaultBase

\* conversion of the double num/den to the integer rep of std::chrono::seconds
ToRep(num, den) == num \div den

\* required_delay *= 1.2 : duration::operator*= takes its operand as rep
BackoffScaled(d) == d * ToRep(12, 10)

\* required_delay before the random part is added
RequiredDelay(info, site_name) ==
    IF info.backoff_mode THEN BackoffScaled(BaseDelay(site_name))
    ELSE BaseDelay(site_name)

\* how long enforce_rate_limits sleeps
WaitTime(info, site_name, jitter) ==
    LET required_delay == RequiredDelay(info, site_name) + jitter
        elapsed == info.last_request
    IN  IF elapsed < required_delay THEN required_delay - elapsed ELSE 0

\* RecordSuccess leaving backoff mode one success early (>= for >)
RecordSuccessEarlyExit(info) ==
    LET n == info.consecutive_successes + 1
    IN  [info EXCEPT !.consecutive_successes = n,
                     !.consecutive_failures = 0,
                     !.backoff_mode = IF @ /\ n >= ExitStreak THEN FALSE ELSE @]

\* RecordSuccess that leaves the failure streak as it is
RecordSuccessKeepFailures(info) ==
    LET n == info.consecutive_successes + 1
    IN  [info EXCEPT !.consecutive_successes = n,
                     !.backoff_mode = IF @ /\ n > ExitStreak THEN FALSE ELSE @]

\* the 2xx branch of fetch_page
RecordSuccess(info) ==
    LET n == info.consecutive_successes + 1
    IN  [info EXCEPT !.consecutive_successes = n,
                     !.consecutive_failures = 0,
                     !.backoff_mode = IF @ /\ n > ExitStreak THEN FALSE ELSE @]

\* Blocking that forgets the 403 and 999 statuses
BlockingOnly429(http_code) == http_code = 429

\* the statuses on which fetch_page enters backoff mode
Blocking(http_code) == http_code = 429 \/ http_code = 403 \/ http_code = 999

\* a non-2xx branch that leaves the success streak as it is
RecordHttpFailureKeepSuccesses(info, http_code) ==
    LET enter == Blocking(http_code) /\ ~info.backoff_mode
    IN  [info EXCEPT !.consecutive_failures = @ + 1,
                     !.backoff_mode = IF enter THEN TRUE ELSE @,
                     !.delay = IF enter THEN @ * 2 ELSE @]

\* the non-2xx branch of fetch_page
RecordHttpFailure(info, http_code) ==
    LET enter == Blocking(http_code) /\ ~info.backoff_mode
    IN  [info EXCEPT !.consecutive_failures = @ + 1,
                     !.consecutive_successes = 0,
                     !.backoff_mode = IF enter THEN TRUE ELSE @,
                     !.delay = IF enter THEN @ * 2 ELSE @]

Is2xx(http_code) == http_code >= 200 /\ http_code < 300

\* a bookkeeping kept in one place for all sites: every entry is updated
RecordOutcomeAllSites(rl, site_name, o) ==
    IF site_name = "" \/ o.res # CURLE_OK THEN rl
    ELSE LET m == Entry(rl, site_name)
         IN  [s \in DOMAIN m |->
                  IF Is2xx(o.http_code) THEN RecordSuccess(m[s])
                  ELSE RecordHttpFailure(m[s], o.http_code)]

\* rate-limit bookkeeping of one attempt of fetch_page
RecordOutcome(rl, site_name, o) ==
    IF site_name = "" \/ o.res # CURLE_OK THEN rl
    ELSE LET m == Entry(rl, site_name)
         IN  [m EXCEPT ![site_name] =
                  IF Is2xx(o.http_code) THEN RecordSuccess(@)
                  ELSE RecordHttpFailure(@, o.http_code)]

\* status sleeps that do not look at the attempt index
StatusSleepFlat(http_code, i) ==
    IF http_code = 429 THEN 60
    ELSE IF http_code = 403 \/ http_code = 999 THEN 120
    ELSE 0

\* the sleep fetch_page takes right after a non-2xx status
StatusSleep(http_code, i) ==
    IF http_code = 429 THEN 60 * (i + 1)
    ELSE IF http_code = 403 \/ http_code = 999 THEN 120 + 60 * i
    ELSE 0

\* backoff_seconds at the end of a loop iteration
BackoffSeconds(i, jitter) == 3 * (i + 1) + jitter

\* all that iteration i of the retry loop sleeps after its request came back
\* as o: nothing after a 2xx, which leaves the loop
SleepAfter(o, i, jitter) ==
    IF o.res = CURLE_OK /\ Is2xx(o.http_code) THEN 0
    ELSE (IF o.res = CURLE_OK THEN StatusSleep(o.http_code, i) ELSE 0)
             + BackoffSeconds(i, jitter)


-----------------------------------------------------------------------------
(* The places of the crawl that issue HTTP requests *)

\* callers of fetch_page(url, 3, site): process_dice_jobs, process_simplyhired_jobs,
\* fetch_simplyhired_job_details
PageCallers == {"dice_search", "simplyhired_search", "simplyhired_detail"}

\* callers of fetch_linkedin_page: the page loop and the detail fetch of
\* process_linkedin_jobs
LinkedinCallers == {"linkedin_search", "linkedin_detail"}

CallerSite(caller) ==
    CASE caller \in {"dice_search", "dice_detail"} -> "Dice"
      [] caller \in {"simplyhired_search", "simplyhired_detail"} -> "SimplyHired"
      [] caller \in LinkedinCallers -> "LinkedIn"

\* the sleep a caller takes right before it calls its fetch function
PreSleep(caller) ==
    CASE caller = "dice_search" -> {5 + r : r \in RandMod(5)}
      [] caller = "simplyhired_search" -> {(1000 + r) \div 1000 : r \in RandMod(2000)}
      [] caller = "simplyhired_detail" -> {(2000 + r) \div 1000 : r \in RandMod(4000)}
      [] caller = "dice_detail" -> {4 + r : r \in RandMod(4)}
      [] caller = "linkedin_search" -> {0}
      [] caller = "linkedin_detail" -> {2}

\* delay_ms = 3000 + rand() % 4000 inside fetch_page, in seconds
RequestDelay == {(3000 + r) \div 1000 : r \in RandMod(4000)}

\* the fixed sleep inside fetch_linkedin_page
LinkedinSleep == 2

-----------------------------------------------------------------------------
(* Fetcher *)

NoAttempt ==
    [site |-> "", fn |-> "", i |-> 0, res |-> CURLE_OK, http_code |-> 0,
     preceded |-> FALSE, gap |-> -1, was_backoff |-> FALSE]

NoReq ==
    [site |-> "", backoff |-> FALSE, required |-> 0, jitter |-> 0]

NoCall ==
    [fn |-> "", site_name |-> "", retries |-> 0, i |-> 0, res |-> CURLE_OK,
     http_code |-> 0, buffer |-> NoBody, codes |-> << >>]

NoResult == [fn |-> "", site |-> "", kind |-> "none", body |-> NoBody, attempts |-> 0]

FetchInit ==
    /\ rate_limits = << >>
    /\ pc = "idle"
    /\ call = NoCall
    /\ result = NoResult
    /\ nfetch = 0
    /\ focus \in SiteNames
    /\ last_sent = [s \in SiteNames |-> -1]
    /\ consulted = FALSE
    /\ attempt = NoAttempt
    /\ req = NoReq

\* enforce_rate_limits(site_name) on the map rl: the map afterwards and the time slept
EnforceRateLimits(rl, site_name, jitter) ==
    LET m == Entry(rl, site_name)
        wait == WaitTime(m[site_name], site_name, jitter)
    IN  [rl |-> [Tick(m, wait) EXCEPT ![site_name].last_request = 0],
         wait |-> wait,
         info |-> m[site_name]]

\* the head of fetch_page: if (!site_name.empty()) enforce_rate_limits(site_name)
LimitAtEntry(rl, site_name, jitter) ==
    IF site_name = "" THEN [rl |-> rl, wait |-> 0, info |-> NewInfo]
    ELSE EnforceRateLimits(rl, site_name, jitter)

\* fetch_page from its entry to the retry loop: rate limiter, curl set-up, the
\* 3-7 s sleep.  The caller's own sleep right before the call is part of the step.
FetchPageCall(caller, pre, jitter, dly) ==
    /\ pc = "idle"
    /\ nfetch < MaxFetches
    /\ CallerSite(caller) = focus
    /\ LET site_name == CallerSite(caller)
           e == LimitAtEntry(Tick(rate_limits, pre), site_name, jitter)
           total == pre + e.wait + dly
       IN  /\ rate_limits' = Tick(e.rl, dly)
           /\ last_sent' = TickSent(last_sent, total)
           /\ req' = [site |-> site_name,
                      backoff |-> e.info.backoff_mode,
                      required |-> RequiredDelay(e.info, site_name),
                      jitter |-> jitter]
           /\ call' = [fn |-> "fetch_page", site_name |-> site_name,
                       retries |-> Retries, i |-> 0, res |-> CURLE_OK,
                       http_code |-> 0, buffer |-> NoBody, codes |-> << >>]
    /\ consulted' = TRUE
    /\ pc' = IF Retries > 0 THEN "perform" ELSE "exit"
    /\ nfetch' = nfetch + 1
    /\ result' = NoResult
    /\ attempt' = NoAttempt
    /\ UNCHANGED focus
    /\ UNCHANGED <<cvars, xvars, tvars, dvars>>

\* an iteration of the retry loop that does not leave the loop on a 2xx status
FetchPageAttemptNoBreak(o, jitter) ==
    /\ pc = "perform"
    /\ call.fn = "fetch_page"
    /\ call.i < call.retries
    /\ LET site_name == call.site_name
           i == call.i
           slept == SleepAfter(o, i, jitter)
       IN  /\ rate_limits' = Tick(RecordOutcome(rate_limits, site_name, o), slept)
           /\ last_sent' = TickSent([last_sent EXCEPT ![site_name] = 0], slept)
           /\ attempt' = [site |-> site_name, fn |-> "fetch_page", i |-> i,
                          res |-> o.res, http_code |-> o.http_code,
                          preceded |-> consulted,
                          gap |-> last_sent[site_name],
                          was_backoff |-> rate_limits[site_name].backoff_mode]
           /\ call' = [call EXCEPT !.res = o.res,
                                   !.http_code = o.http_code,
                                   !.buffer = IF o.res = CURLE_OK
                                              THEN [attempt |-> i + 1, http_code |-> o.http_code]
                                              ELSE NoBody,
                                   !.codes = Append(@, o.http_code),
                                   !.i = i + 1]
           /\ pc' = IF i + 1 >= call.retries THEN "exit" ELSE "perform"
    /\ consulted' = FALSE
    /\ UNCHANGED <<result, nfetch, focus, req>>
    /\ UNCHANGED <<cvars, xvars, tvars, dvars>>

\* one iteration of the retry loop of fetch_page: the request, the bookkeeping of
\* its outcome, the sleeps that follow it
FetchPageAttempt(o, jitter) ==
    /\ pc = "perform"
    /\ call.fn = "fetch_page"
    /\ call.i < call.retries
    /\ LET site_name == call.site_name
           i == call.i
           ok2xx == o.res = CURLE_OK /\ Is2xx(o.http_code)
           slept == SleepAfter(o, i, jitter)
       IN  /\ rate_limits' = Tick(RecordOutcome(rate_limits, site_name, o), slept)
           /\ last_sent' = TickSent([last_sent EXCEPT ![site_name] = 0], slept)
           /\ attempt' = [site |-> site_name, fn |-> "fetch_page", i |-> i,
                          res |-> o.res, http_code |-> o.http_code,
                          preceded |-> consulted,
                          gap |-> last_sent[site_name],
                          was_backoff |-> rate_limits[site_name].backoff_mode]
           /\ call' = [call EXCEPT !.res = o.res,
                                   !.http_code = o.http_code,
                                   !.buffer = IF o.res = CURLE_OK
                                              THEN [attempt |-> i + 1, http_code |-> o.http_code]
                                              ELSE NoBody,
                                   !.codes = Append(@, o.http_code),
                                   !.i = IF ok2xx THEN i ELSE i + 1]
           /\ pc' = IF ok2xx \/ i + 1 >= call.retries THEN "exit" ELSE "perform"
    /\ consulted' = FALSE
    /\ UNCHANGED <<result, nfetch, focus, req>>
    /\ UNCHANGED <<cvars, xvars, tvars, dvars>>

\* the end of fetch_page: clean-up, then the exception or the buffer
FetchPageExit ==
    /\ pc = "exit"
    /\ call.fn = "fetch_page"
    /\ result' = [fn |-> "fetch_page", site |-> call.site_name,
                  kind |-> IF call.res # CURLE_OK THEN "thrown" ELSE "returned",
                  body |-> IF call.res # CURLE_OK THEN NoBody ELSE call.buffer,
                  attempts |-> Len(call.codes)]
    /\ pc' = "idle"
    /\ call' = NoCall
    /\ UNCHANGED <<rate_limits, nfetch, focus, last_sent, consulted, attempt, req>>
    /\ UNCHANGED <<cvars, xvars, tvars, dvars>>


\* fetch_linkedin_page: one request after a fixed sleep, no rate limiter, no retry
FetchLinkedinPage(caller, pre, o) ==
    /\ pc = "idle"
    /\ nfetch < MaxFetches
    /\ focus = "LinkedIn"
    /\ LET slept == pre + LinkedinSleep
           sent == TickSent(last_sent, slept)
       IN  /\ rate_limits' = Tick(rate_limits, slept)
           /\ last_sent' = [sent EXCEPT !["LinkedIn"] = 0]
           /\ attempt' = [site |-> "LinkedIn", fn |-> "fetch_linkedin_page", i |-> 0,
                          res |-> o.res, http_code |-> o.http_code,
                          preceded |-> consulted,
                          gap |-> sent[CallerSite(caller)], was_backoff |-> FALSE]
    /\ result' = [fn |-> "fetch_linkedin_page", site |-> "LinkedIn",
                  kind |-> IF o.res # CURLE_OK THEN "thrown" ELSE "returned",
                  body |-> IF o.res # CURLE_OK THEN NoBody
                           ELSE [attempt |-> 1, http_code |-> o.http_code],
                  attempts |-> 1]
    /\ consulted' = FALSE
    /\ nfetch' = nfetch + 1
    /\ req' = NoReq
    /\ UNCHANGED <<pc, call, focus>>
    /\ UNCHANGED <<cvars, xvars, tvars, dvars>>

\* the request of fetch_dice_job_details: its own curl handle, one request after a
\* 4-7 s sleep, no rate limiter, no retry, no exception.  Its statics decide
\* only whether 2 minutes are slept before that, which ages every request as
\* much as the longest sleep drawn here; FetchDiceJobDetailsCounters follows them
FetchDiceJobDetails(pre, o) ==
    /\ pc = "idle"
    /\ nfetch < MaxFetches
    /\ focus = "Dice"
    /\ LET sent == TickSent(last_sent, pre)
       IN  /\ rate_limits' = Tick(rate_limits, pre)
           /\ last_sent' = [sent EXCEPT !["Dice"] = 0]
           /\ attempt' = [site |-> "Dice", fn |-> "fetch_dice_job_details", i |-> 0,
                          res |-> o.res, http_code |-> o.http_code,
                          preceded |-> consulted,
                          gap |-> sent["Dice"], was_backoff |-> FALSE]
    /\ result' = [fn |-> "fetch_dice_job_details", site |-> "Dice",
                  kind |-> "returned",
                  body |-> IF o.res # CURLE_OK THEN NoBody
                           ELSE [attempt |-> 1, http_code |-> o.http_code],
                  attempts |-> 1]
    /\ consulted' = FALSE
    /\ nfetch' = nfetch + 1
    /\ req' = NoReq
    /\ UNCHANGED <<pc, call, focus>>
    /\ UNCHANGED <<cvars, xvars, tvars, dvars>>

\* the crawl moves on to another site: main sleeps 15-29 s between two sites
SwitchSite(site, r) ==
    /\ pc = "idle"
    /\ nfetch < MaxFetches
    /\ site # focus
    /\ focus' = site
    /\ rate_limits' = Tick(rate_limits, 15 + r)
    /\ last_sent' = TickSent(last_sent, 15 + r)
    /\ nfetch' = nfetch + 1
    /\ UNCHANGED <<pc, call, result, consulted, attempt, req>>
    /\ UNCHANGED <<cvars, xvars, tvars, dvars>>

FetchNext ==
    \/ \E caller \in PageCallers : \E pre \in PreSleep(caller) :
         \E jitter \in RandMod(JitterMod) : \E dly \in RequestDelay :
           FetchPageCall(caller, pre, jitter, dly)
    \/ \E o \in Outcomes : \E jitter \in RandMod(JitterMod) : FetchPageAttempt(o, jitter)
    \/ FetchPageExit
    \/ \E caller \in LinkedinCallers : \E pre \in PreSleep(caller) :
         \E o \in Outcomes : FetchLinkedinPage(caller, pre, o)
    \/ \E pre \in PreSleep("dice_detail") : \E o \in Outcomes : FetchDiceJobDetails(pre, o)
    \/ \E site \in SiteNames : \E r \in RandMod(15) : SwitchSite(site, r)

-----------------------------------------------------------------------------
(* The crawl controller: main's cycle over the sites, and the three site     *)
(* processors.  Text is a sequence of characters.  A fetch either returns or *)
(* throws (FetchPageExit); the detail fetches catch their own failures and   *)
(* touch neither the title nor the size of all_jobs.                         *)

\* bounds of the exploration
MaxJobsArg == 2
MaxContainers == 2

\* constants of the program
MaxPages == 2
MinJobsPerSite == 5
DefaultMaxJobs == 100

InitialSites == <<"LinkedIn", "SimplyHired", "Dice">>

Shuffles ==
    {f \in [1..Len(InitialSites) -> SiteNames] : \A s \in SiteNames : \E i \in DOMAIN f : f[i] = s}

TargetSites == {""} \cup SiteNames \cup {"Indeed"}

Texts == {<< >>, <<"Q", "A">>}
KeywordLists == {<< >>, << <<"q", "A">> >>}

\* what find_nodes collects inside a container for the title, the company
\* and the description selectors: no node, or a first node with its cleaned
\* text
TitleNodes == {<< >>, << <<"Q", "A">> >>}
DescriptionNodes == {<< >>, << <<"a", "q", "a">> >>}
CompanyNodes == {<< >>}
Containers ==
    [title : TitleNodes, company : CompanyNodes, description : DescriptionNodes]

\* the <a> elements of SimplyHired's fallback: href and text
JobLinks == [url : {"", "https://www.simplyhired.com/job/1"}, text : Texts]

ToLower(c) == CASE c = "Q" -> "q" [] c = "A" -> "a" [] OTHER -> c

tolower(text) == [i \in 1..Len(text) |-> ToLower(text[i])]

\* std::string::find(needle) != npos
Find(hay, needle) ==
    \E i \in 0..(Len(hay) - Len(needle)) : SubSeq(hay, i + 1, i + Len(needle)) = needle

\* json::value(key, ""): the member if present, else the default
Value(member) == IF member = << >> THEN << >> ELSE member[1]

\* a json object, reduced to the members the controller and deduplicate_jobs
\* read: source, title and company (a member is << >> when absent)
NullJson == [null |-> TRUE, source |-> "", title |-> << >>, company |-> << >>]

\* the keyword test on the title alone
KeywordMatchTitleOnly(description, title, keywords) ==
    \E k \in DOMAIN keywords : Find(tolower(Value(title)), tolower(keywords[k]))

KeywordMatch(description, title, keywords) ==
    \E k \in DOMAIN keywords :
        \/ Find(tolower(Value(description)), tolower(keywords[k]))
        \/ Find(tolower(Value(title)), tolower(keywords[k]))

scrape_details(n, cfg, scfg) ==
    LET j == [null |-> FALSE, source |-> cfg,
              title |-> IF n.title # << >> THEN <<n.title[1]>> ELSE << >>,
              company |-> IF n.company # << >> THEN <<n.company[1]>> ELSE << >>]
        description == IF n.description # << >> THEN <<n.description[1]>> ELSE << >>
    IN IF scfg.keywords # << >> /\ ~KeywordMatch(description, j.title, scfg.keywords)
       THEN NullJson ELSE j

\* a fingerprint that keeps the letter case
FingerprintCaseSensitive(job) == Value(job.title) \o <<"|">> \o Value(job.company)

Fingerprint(job) == tolower(Value(job.title)) \o <<"|">> \o tolower(Value(job.company))

\* a deduplication that puts each kept record in front of the earlier ones
RECURSIVE DedupPrepend(_, _, _)
DedupPrepend(jobs, seen_fingerprints, unique) ==
    IF jobs = << >> THEN unique
    ELSE LET fp == Fingerprint(Head(jobs))
         IN IF fp \in seen_fingerprints
            THEN DedupPrepend(Tail(jobs), seen_fingerprints, unique)
            ELSE DedupPrepend(Tail(jobs), seen_fingerprints \cup {fp}, <<Head(jobs)>> \o unique)

RECURSIVE Dedup(_, _, _)
Dedup(jobs, seen_fingerprints, unique) ==
    IF jobs = << >> THEN unique
    ELSE LET fp == Fingerprint(Head(jobs))
         IN IF fp \in seen_fingerprints
            THEN Dedup(Tail(jobs), seen_fingerprints, unique)
            ELSE Dedup(Tail(jobs), seen_fingerprints \cup {fp}, Append(unique, Head(jobs)))

\* a deduplication that keeps every record
KeepAll(jobs) == jobs

deduplicate_jobs(jobs) == Dedup(jobs, {}, << >>)

Active(site) ==
    /\ search_cfg.target_site = "" \/ site = search_cfg.target_site
    /\ site \in SiteNames

num_active_sites == Cardinality({i \in DOMAIN sites : Active(sites[i])})

Max(a, b) == IF a > b THEN a ELSE b

jobs_per_site ==
    Max(MinJobsPerSite,
        output_cfg.max_jobs \div (IF num_active_sites > 0 THEN num_active_sites ELSE 1))

\* the max_jobs argument of the site processor: the first loop over the
\* sites passes jobs_per_site, the second passes output_cfg.max_jobs
Cap == IF main.pass = 1 THEN jobs_per_site ELSE output_cfg.max_jobs

Idle == [pc |-> "start", pass |-> 1, idx |-> 1, page |-> 0, remaining |-> 0, links |-> FALSE]

\* no history kept
NoHist == [on |-> FALSE, fetched |-> {}, origin |-> << >>]

\* "Fetching ... page N": the fetch of the search page at hand is noted
Fetched(h) ==
    IF h.on
    THEN [h EXCEPT !.fetched = @ \cup {[site |-> sites[main.idx], page |-> main.page,
                                        pass |-> main.pass]}]
    ELSE h

\* a record pushed to all_jobs is noted with the page at hand
Found(h, pushed) ==
    IF h.on /\ pushed THEN [h EXCEPT !.origin = Append(@, main.page)] ELSE h

CrawlIdle ==
    /\ output_cfg = [max_jobs |-> DefaultMaxJobs]
    /\ search_cfg = [target_site |-> "", keywords |-> << >>]
    /\ sites = InitialSites
    /\ all_jobs = << >>
    /\ unique_jobs = << >>
    /\ failed = {}
    /\ main = Idle
    /\ hist = NoHist

CrawlInit ==
    /\ output_cfg \in [max_jobs : 1..MaxJobsArg]
    /\ search_cfg \in [target_site : TargetSites, keywords : KeywordLists]
    /\ sites = InitialSites
    /\ all_jobs = << >>
    /\ unique_jobs = << >>
    /\ failed = {}
    /\ main = Idle
    /\ hist = NoHist

\* top of the while (true) loop: a fresh all_jobs, and a shuffle unless a
\* target site is given
StartCycle(order) ==
    /\ main.pc = "start"
    /\ sites' = IF search_cfg.target_site = "" THEN order ELSE sites
    /\ all_jobs' = << >>
    /\ main' = [Idle EXCEPT !.pc = "loop"]
    /\ failed' = {}
    /\ hist' = [NoHist EXCEPT !.on = hist.on]
    /\ UNCHANGED <<output_cfg, search_cfg, unique_jobs>>
    /\ UNCHANGED <<fvars, xvars, tvars, dvars>>

\* the two `continue`s at the head of a loop over the sites
SkipSite ==
    /\ main.pc = "loop"
    /\ main.idx <= Len(sites)
    /\ ~Active(sites[main.idx])
    /\ main' = [main EXCEPT !.idx = @ + 1]
    /\ UNCHANGED <<output_cfg, search_cfg, sites, all_jobs, unique_jobs, failed, hist>>
    /\ UNCHANGED <<fvars, xvars, tvars, dvars>>

\* call of process_linkedin_jobs, process_simplyhired_jobs or process_dice_jobs
ProcessSite ==
    /\ main.pc = "loop"
    /\ main.idx <= Len(sites)
    /\ Active(sites[main.idx])
    /\ main' = [main EXCEPT !.pc = "page", !.page = 1]
    /\ UNCHANGED <<output_cfg, search_cfg, sites, all_jobs, unique_jobs, failed, hist>>
    /\ UNCHANGED <<fvars, xvars, tvars, dvars>>

\* leaving a loop over the sites, by exhaustion or by break
LeaveLoop(m) ==
    IF m.pass = 1 THEN [Idle EXCEPT !.pc = "loop", !.pass = 2]
    ELSE [Idle EXCEPT !.pc = "dedupe", !.pass = 2]

EndLoop ==
    /\ main.pc = "loop"
    /\ main.idx > Len(sites)
    /\ main' = LeaveLoop(main)
    /\ UNCHANGED <<output_cfg, search_cfg, sites, all_jobs, unique_jobs, failed, hist>>
    /\ UNCHANGED <<fvars, xvars, tvars, dvars>>

\* the search page fetch throws ScraperException: break out of the page loop
\* a catch that starts the site over at its first page
AfterFailureStartsOver(m) == [m EXCEPT !.pc = "page", !.page = 1]

\* a catch that gives up the remaining sites with the page
AfterFailureEndsLoop(m) == [m EXCEPT !.pc = "dedupe"]

\* what the catch of ScraperException in the page loop does: break
AfterFailure(m) == [m EXCEPT !.pc = "site_end"]

SearchPageFails ==
    /\ main.pc = "page"
    /\ main' = AfterFailure(main)
    /\ hist' = Fetched(hist)
    /\ UNCHANGED <<output_cfg, search_cfg, sites, all_jobs, unique_jobs, failed>>
    /\ UNCHANGED <<fvars, xvars, tvars, dvars>>

\* the same step, with the error message it writes to std::cerr kept in failed
SearchPageFailsLogged ==
    /\ main.pc = "page"
    /\ main' = AfterFailure(main)
    /\ failed' = failed \cup {[site |-> sites[main.idx], page |-> main.page, pass |-> main.pass]}
    /\ hist' = Fetched(hist)
    /\ UNCHANGED <<output_cfg, search_cfg, sites, all_jobs, unique_jobs>>
    /\ UNCHANGED <<fvars, xvars, tvars, dvars>>

\* gumbo_parse gives no output: continue with the next page
SearchPageUnparsed ==
    /\ main.pc = "page"
    /\ main' = IF main.page < MaxPages THEN [main EXCEPT !.page = @ + 1]
               ELSE [main EXCEPT !.pc = "site_end"]
    /\ hist' = Fetched(hist)
    /\ UNCHANGED <<output_cfg, search_cfg, sites, all_jobs, unique_jobs, failed>>
    /\ UNCHANGED <<fvars, xvars, tvars, dvars>>

\* the search page is fetched and parsed; n containers are found, or, on
\* SimplyHired with no container, n job links
SearchPageParsed(n, links) ==
    /\ main.pc = "page"
    /\ links => sites[main.idx] = "SimplyHired" /\ n > 0
    /\ main' = IF n = 0 THEN [main EXCEPT !.pc = "page_end"]
               ELSE [main EXCEPT !.pc = "containers", !.remaining = n, !.links = links]
    /\ hist' = Fetched(hist)
    /\ UNCHANGED <<output_cfg, search_cfg, sites, all_jobs, unique_jobs, failed>>
    /\ UNCHANGED <<fvars, xvars, tvars, dvars>>

\* after one element of the page: break on the cap, else the next element
AfterElement(pushed, jobs) ==
    IF (pushed /\ Len(jobs) >= Cap) \/ main.remaining = 1
    THEN [main EXCEPT !.pc = "page_end", !.remaining = 0, !.links = FALSE]
    ELSE [main EXCEPT !.remaining = @ - 1]

\* one iteration of `for (auto *container : containers)`
ProcessContainer(container) ==
    /\ main.pc = "containers"
    /\ ~main.links
    /\ LET job == scrape_details(container, sites[main.idx], search_cfg)
           jobs == IF job.null THEN all_jobs ELSE Append(all_jobs, job)
       IN /\ all_jobs' = jobs
          /\ main' = AfterElement(~job.null, jobs)
          /\ hist' = Found(hist, ~job.null)
    /\ UNCHANGED <<output_cfg, search_cfg, sites, unique_jobs, failed>>
    /\ UNCHANGED <<fvars, xvars, tvars, dvars>>

\* one iteration of `for (auto *link : job_links)` of process_simplyhired_jobs
ProcessJobLink(link) ==
    /\ main.pc = "containers"
    /\ main.links
    /\ LET ok == link.url # "" /\ link.text # << >>
           job == [null |-> FALSE, source |-> link.url, title |-> <<link.text>>,
                   company |-> << >>]
           jobs == IF ok THEN Append(all_jobs, job) ELSE all_jobs
       IN /\ all_jobs' = jobs
          /\ main' = AfterElement(ok, jobs)
          /\ hist' = Found(hist, ok)
    /\ UNCHANGED <<output_cfg, search_cfg, sites, unique_jobs, failed>>
    /\ UNCHANGED <<fvars, xvars, tvars, dvars>>

\* after the containers of a page: break on the cap, else the next page
EndPage ==
    /\ main.pc = "page_end"
    /\ main' = IF Len(all_jobs) >= Cap \/ main.page >= MaxPages
               THEN [main EXCEPT !.pc = "site_end"]
               ELSE [main EXCEPT !.pc = "page", !.page = @ + 1]
    /\ UNCHANGED <<output_cfg, search_cfg, sites, all_jobs, unique_jobs, failed, hist>>
    /\ UNCHANGED <<fvars, xvars, tvars, dvars>>

\* back in main after the site processor: break on output_cfg.max_jobs,
\* else on to the next site
EndSite ==
    /\ main.pc = "site_end"
    /\ main' = IF Len(all_jobs) >= output_cfg.max_jobs THEN LeaveLoop(main)
               ELSE [Idle EXCEPT !.pc = "loop", !.pass = main.pass, !.idx = main.idx + 1]
    /\ UNCHANGED <<output_cfg, search_cfg, sites, all_jobs, unique_jobs, failed, hist>>
    /\ UNCHANGED <<fvars, xvars, tvars, dvars>>

\* deduplicate_jobs and the save
Deduplicate ==
    /\ main.pc = "dedupe"
    /\ unique_jobs' = deduplicate_jobs(all_jobs)
    /\ main' = [main EXCEPT !.pc = "saved"]
    /\ UNCHANGED <<output_cfg, search_cfg, sites, all_jobs, failed, hist>>
    /\ UNCHANGED <<fvars, xvars, tvars, dvars>>

\* the sleep of scrape_interval ends the loop body and with it all_jobs and
\* unique_jobs
NextCycle ==
    /\ main.pc = "saved"
    /\ main' = Idle
    /\ all_jobs' = << >>
    /\ unique_jobs' = << >>
    /\ failed' = {}
    /\ hist' = [NoHist EXCEPT !.on = hist.on]
    /\ UNCHANGED <<output_cfg, search_cfg, sites>>
    /\ UNCHANGED <<fvars, xvars, tvars, dvars>>

CrawlNext ==
    \/ \E order \in Shuffles : StartCycle(order)
    \/ SkipSite
    \/ ProcessSite
    \/ EndLoop
    \/ SearchPageFails
    \/ SearchPageUnparsed
    \/ \E n \in 0..MaxContainers : \E links \in BOOLEAN : SearchPageParsed(n, links)
    \/ \E container \in Containers : ProcessContainer(container)
    \/ \E link \in JobLinks : ProcessJobLink(link)
    \/ EndPage
    \/ EndSite
    \/ Deduplicate
    \/ NextCycle

\* the same cycle, with the failed fetches kept
PagesNext ==
    \/ \E order \in Shuffles : StartCycle(order)
    \/ SkipSite
    \/ ProcessSite
    \/ EndLoop
    \/ SearchPageFailsLogged
    \/ SearchPageUnparsed
    \/ \E n \in 0..MaxContainers : \E links \in BOOLEAN : SearchPageParsed(n, links)
    \/ \E container \in Containers : ProcessContainer(container)
    \/ \E link \in JobLinks : ProcessJobLink(link)
    \/ EndPage
    \/ EndSite
    \/ Deduplicate
    \/ NextCycle

-----------------------------------------------------------------------------
(* The statics of fetch_dice_job_details *)

\* the outcome of curl_easy_perform in fetch_dice_job_details: a 2xx answer,
\* an answer with another status, a transport failure
DiceTransfers == {"2xx", "http_error", "curl_error"}

\* how the rest of the call ends: a description container is found and the
\* description returned, none is found, or an exception reaches the catch
DiceExtractions == {"description", "no_container", "exception"}

DiceIdle ==
    /\ failure_count = 0
    /\ success_count = 0
    /\ reset_session = FALSE
    /\ dice = [calls |-> 0, before |-> 0, streak |-> 0, reset |-> FALSE]

\* if (failure_count > 3 && success_count < 1)
NeedsReset(failures, successes) == failures > 3 /\ successes < 1

\* the two counters after the branch on res and http_code
AfterTransfer(failures, successes, transfer) ==
    IF transfer = "2xx" THEN [failure_count |-> 0, success_count |-> successes + 1]
    ELSE [failure_count |-> failures + 1, success_count |-> successes]

\* the two counters after `if (!description_containers.empty())`, or after
\* the catch
AfterExtraction(c, extraction) ==
    IF extraction = "description"
    THEN [failure_count |-> 0, success_count |-> c.success_count + 1]
    ELSE [failure_count |-> c.failure_count + 1, success_count |-> c.success_count]

\* what one call of fetch_dice_job_details does to its statics: the test at
\* its head, the transfer, the search for the description.  The call returns
\* a description exactly when extraction is "description"
FetchDiceJobDetailsCounters(transfer, extraction) ==
    /\ dice.calls < MaxDiceFetches
    /\ LET reset == NeedsReset(failure_count, success_count)
           failures == IF reset THEN 0 ELSE failure_count
           c == AfterExtraction(AfterTransfer(failures, success_count, transfer),
                                extraction)
           ran == IF reset THEN 0 ELSE dice.streak
       IN /\ reset_session' = (reset_session \/ reset)
          /\ failure_count' = c.failure_count
          /\ success_count' = c.success_count
          /\ dice' = [calls |-> dice.calls + 1,
                      before |-> dice.streak,
                      streak |-> IF extraction = "description" THEN 0 ELSE ran + 1,
                      reset |-> reset]
    /\ UNCHANGED <<fvars, cvars, xvars, tvars>>

-----------------------------------------------------------------------------
(* The selector engine and the field extractor over a parsed document.  The  *)
(* document is the sequence of its nodes in document order (pre-order); each *)
(* node names its parent, 0 for the root.  An element carries its normalized *)
(* tag name and its attributes; an attribute and a json member are << >>     *)
(* when absent and <<text>> when present.                                    *)

\* bound: number of nodes of a document
MaxNodes == 4

GUMBO_TAG_UNKNOWN == ""

\* std::isspace
isspace(c) == c \in {" ", "\t", "\n"}

\* 0-based positions at which needle occurs in hay
Positions(hay, needle) ==
    {i \in 0..(Len(hay) - Len(needle)) : SubSeq(hay, i + 1, i + Len(needle)) = needle}

\* hay.find(needle) when it is not npos
FirstPos(hay, needle) ==
    CHOOSE i \in Positions(hay, needle) : \A k \in Positions(hay, needle) : i <= k

\* hay.find_last_of(c) when it is not npos
LastPos(hay, c) ==
    CHOOSE i \in Positions(hay, <<c>>) : \A k \in Positions(hay, <<c>>) : k <= i

\* s.substr(pos)
substr(s, pos) == SubSeq(s, pos + 1, Len(s))

\* s.substr(0, s.find(needle)): the whole of s when needle does not occur
UpTo(s, needle) == IF Find(s, needle) THEN SubSeq(s, 1, FirstPos(s, needle)) ELSE s

\* selector.substr(selector.find("=\"") + 2), up to the next quote; npos + 2
\* wraps around to 1
QuotedValue(selector) ==
    LET eq == <<"=", "\"">>
        from == IF Find(selector, eq) THEN FirstPos(selector, eq) + 2 ELSE 1
    IN UpTo(substr(selector, from), <<"\"">>)

RECURSIVE CleanFrom(_, _, _, _)
CleanFrom(text, i, res, space) ==
    IF i > Len(text) THEN res
    ELSE IF isspace(text[i])
         THEN IF ~space /\ res # << >>
              THEN CleanFrom(text, i + 1, Append(res, " "), TRUE)
              ELSE CleanFrom(text, i + 1, res, space)
         ELSE CleanFrom(text, i + 1, Append(res, text[i]), FALSE)

\* a trim that drops the last character whatever it is
CleanTextPopAlways(text) ==
    LET res == CleanFrom(text, 1, << >>, FALSE)
    IN IF res # << >> THEN SubSeq(res, 1, Len(res) - 1) ELSE res

clean_text(text) ==
    LET res == CleanFrom(text, 1, << >>, FALSE)
    IN IF res # << >> /\ res[Len(res)] = " " THEN SubSeq(res, 1, Len(res) - 1) ELSE res

normalize_url(url, base_url) ==
    IF url = << >> THEN << >>
    ELSE IF Len(url) >= 4 /\ SubSeq(url, 1, 4) = <<"h", "t", "t", "p">> THEN url
    ELSE IF url[1] = "/"
    THEN IF ~Find(base_url, <<":", "/", "/">>) THEN base_url \o url
         ELSE LET domain_start == FirstPos(base_url, <<":", "/", "/">>) + 3
                  slashes == {i \in Positions(base_url, <<"/">>) : i >= domain_start}
              IN IF slashes = {} THEN base_url \o url
                 ELSE SubSeq(base_url, 1, CHOOSE i \in slashes : \A k \in slashes : i <= k)
                          \o url
    ELSE LET base ==
                 IF Find(base_url, <<"/">>) /\ LastPos(base_url, "/") > 8
                 THEN SubSeq(base_url, 1, LastPos(base_url, "/") + 1)
                 ELSE IF base_url[Len(base_url)] # "/" THEN Append(base_url, "/")
                 ELSE base_url
         IN base \o url

\* gumbo_get_attribute(&e.attributes, name) is not null
HasAttribute(e, name) == e[name] # << >>

AttributeNames == {"class", "href", "data_testid"}

match_tag(e, tag) == tag = "" \/ (e.tag # GUMBO_TAG_UNKNOWN /\ e.tag = tag)

\* the selector test of the older revision: the class attribute alone
MatchSelectorClassOnly(e, selector) ==
    IF selector = << >> THEN TRUE
    ELSE HasAttribute(e, "class") /\ Find(e["class"][1], selector)

match_selector(e, selector) ==
    IF selector = << >> THEN TRUE
    ELSE IF Find(selector, <<"d", "a", "t", "a", "-", "t", "e", "s", "t", "i", "d", "=">>)
    THEN HasAttribute(e, "data_testid") /\ e["data_testid"][1] = QuotedValue(selector)
    ELSE IF \/ Find(selector, <<"c", "l", "a", "s", "s", "=">>)
            \/ Find(selector, <<"c", "s", "s", "-">>)
    THEN LET class_value ==
                 IF Find(selector, <<"c", "l", "a", "s", "s", "=", "\"">>)
                 THEN QuotedValue(selector) ELSE selector
         IN HasAttribute(e, "class") /\ Find(e["class"][1], class_value)
    ELSE \/ HasAttribute(e, "class") /\ Find(e["class"][1], selector)
         \/ \E name \in AttributeNames : HasAttribute(e, name) /\ Find(e[name][1], selector)

RECURSIVE find_nodes(_, _, _, _)
RECURSIVE SearchChildren(_, _, _, _, _)

\* the loop over e.children, from the child at or after position i on
SearchChildren(t, node, i, tag, selector) ==
    IF i > Len(t) THEN << >>
    ELSE (IF t[i].parent = node THEN find_nodes(t, i, tag, selector) ELSE << >>)
             \o SearchChildren(t, node, i + 1, tag, selector)

\* a search that does not look below a match
FindNodesStopAtMatch(t, node, tag, selector) ==
    IF node = 0 \/ t[node].type # "element" THEN << >>
    ELSE IF match_tag(t[node], tag) /\ match_selector(t[node], selector) THEN <<node>>
    ELSE SearchChildren(t, node, node + 1, tag, selector)

\* find_nodes(node, tag, selector, out): what the call appends to out; node 0
\* is the null pointer
find_nodes(t, node, tag, selector) ==
    IF node = 0 \/ t[node].type # "element" THEN << >>
    ELSE (IF match_tag(t[node], tag) /\ match_selector(t[node], selector)
          THEN <<node>> ELSE << >>)
             \o SearchChildren(t, node, node + 1, tag, selector)

RECURSIVE extract_text(_, _)
RECURSIVE JoinChildren(_, _, _, _)

\* the loop over e.children of extract_text, s the text joined so far
JoinChildren(t, node, i, s) ==
    IF i > Len(t) THEN s
    ELSE IF t[i].parent # node THEN JoinChildren(t, node, i + 1, s)
    ELSE LET c == extract_text(t, i)
         IN JoinChildren(t, node, i + 1,
                IF c = << >> THEN s ELSE IF s = << >> THEN c ELSE s \o <<" ">> \o c)

extract_text(t, node) ==
    IF node = 0 THEN << >>
    ELSE IF t[node].type = "text" THEN t[node].text
    ELSE IF t[node].type # "element" THEN << >>
    ELSE JoinChildren(t, node, node + 1, << >>)

extract_attr(t, node, name) ==
    IF node = 0 \/ t[node].type # "element" THEN << >>
    ELSE IF HasAttribute(t[node], name) THEN t[node][name][1] ELSE << >>

\* the href of the first anchor only, whether or not it carries one
extract_url(t, node, base_url) ==
    IF node = 0 THEN << >>
    ELSE IF extract_attr(t, node, "href") # << >>
    THEN normalize_url(extract_attr(t, node, "href"), base_url)
    ELSE LET anchors == find_nodes(t, node, "a", << >>)
         IN IF anchors # << >> /\ extract_attr(t, anchors[1], "href") # << >>
            THEN normalize_url(extract_attr(t, anchors[1], "href"), base_url)
            ELSE << >>

Element(tag, class, href) ==
    [type |-> "element", tag |-> tag, class |-> class, href |-> href,
     data_testid |-> << >>, text |-> << >>]

TextNode(text) ==
    [type |-> "text", tag |-> GUMBO_TAG_UNKNOWN, class |-> << >>, href |-> << >>,
     data_testid |-> << >>, text |-> text]

RootKind == Element("div", << >>, << >>)

\* the nodes a document is made of
NodeKinds ==
    {Element("h2", << <<"t">> >>, << >>),
     Element("a", << >>, << <<"/", "j">> >>),
     Element("div", << <<"d">> >>, << >>),
     TextNode(<<" ", "Q", "A">>),
     TextNode(<<"R", " ", "a">>)}

Node(kind, parent) ==
    [type |-> kind.type, tag |-> kind.tag, class |-> kind.class, href |-> kind.href,
     data_testid |-> kind.data_testid, text |-> kind.text, parent |-> parent]

RECURSIVE Ancestors(_, _)
\* node i and the nodes above it
Ancestors(t, i) == IF i = 0 THEN {} ELSE {i} \cup Ancestors(t, t[i].parent)

\* where the parser can hang the next node in document order: under an open
\* element; a text node never follows a text node under the same parent
Extensions(t) ==
    {u \in {Append(t, Node(kind, p)) :
                kind \in NodeKinds,
                p \in {i \in Ancestors(t, Len(t)) : t[i].type = "element"}} :
        ~(/\ u[Len(u)].type = "text" /\ t[Len(t)].type = "text"
          /\ u[Len(u)].parent = t[Len(t)].parent)}

RECURSIVE TreesOfSize(_)
TreesOfSize(k) ==
    IF k = 1 THEN {<<Node(RootKind, 0)>>}
    ELSE UNION {Extensions(t) : t \in TreesOfSize(k - 1)}

Trees == UNION {TreesOfSize(k) : k \in 1..MaxNodes}

\* node i lies in the subtree of node n
InSubtree(t, n, i) == n \in Ancestors(t, i)

BaseUrl == <<"h", "t", "t", "p", "s", ":", "/", "/", "x">>

\* site descriptors: one whose URL selector is its title selector, as for
\* Dice and SimplyHired, one with a URL selector of its own, as for LinkedIn,
\* and one without a URL selector; none has a skills selector
SiteConfigs ==
    {[name |-> <<"S">>, base_url |-> BaseUrl,
      title_tag |-> "h2", title_class |-> <<"t">>,
      company_tag |-> "span", company_class |-> <<"c">>,
      description_tag |-> "div", description_class |-> <<"d">>,
      url_tag |-> url[1], url_class |-> url[2],
      skills_tag |-> "", skills_class |-> << >>] :
        url \in {<<"h2", <<"t">> >>, <<"a", << >> >>, <<"", << >> >>}}

\* the last match instead of the first
LastNode(nodes) == nodes[Len(nodes)]

\* nodes[0]
FirstNode(nodes) == nodes[1]

TitleSelector(cfg) == [tag |-> cfg.title_tag, class |-> cfg.title_class]

\* the selector whose first match is handed to extract_url
UrlSelector(cfg) == [tag |-> cfg.url_tag, class |-> cfg.url_class]

\* a json member set from the first match of a field selector
Field(t, n, tag, class) ==
    IF tag = "" THEN << >>
    ELSE LET nodes == find_nodes(t, n, tag, class)
         IN IF nodes # << >> THEN <<clean_text(extract_text(t, FirstNode(nodes)))>>
            ELSE << >>

job_url(t, n, cfg) ==
    LET sel == UrlSelector(cfg)
    IN IF sel.tag # ""
       THEN LET nodes == find_nodes(t, n, sel.tag, sel.class)
            IN IF nodes = << >> THEN << >>
               ELSE IF extract_url(t, FirstNode(nodes), cfg.base_url) # << >>
               THEN extract_url(t, FirstNode(nodes), cfg.base_url)
               ELSE normalize_url(extract_attr(t, FirstNode(nodes), "href"), cfg.base_url)
       ELSE extract_url(t, n, cfg.base_url)

\* regex_replace(skill, "^\\s+|\\s+$", "")
RECURSIVE Trim(_)
Trim(s) ==
    IF s = << >> THEN s
    ELSE IF isspace(s[1]) THEN Trim(Tail(s))
    ELSE IF isspace(s[Len(s)]) THEN Trim(SubSeq(s, 1, Len(s) - 1))
    ELSE s

RECURSIVE SplitSkills(_, _, _, _)
\* the getline(iss, skill, ',') loop: skill is the token being read
SplitSkills(text, i, skill, skills) ==
    LET pushed == IF skill # << >> /\ Trim(skill) # << >>
                  THEN Append(skills, Trim(skill)) ELSE skills
    IN IF i > Len(text) THEN pushed
       ELSE IF text[i] = "," THEN SplitSkills(text, i + 1, << >>, pushed)
       ELSE SplitSkills(text, i + 1, Append(skill, text[i]), skills)

Skills(t, n, cfg) ==
    LET text == Field(t, n, cfg.skills_tag, cfg.skills_class)
    IN IF text = << >> THEN << >> ELSE SplitSkills(text[1], 1, << >>, << >>)

\* json(): the null value scrape_details returns for a filtered container
NullRecord ==
    [null |-> TRUE, source |-> << >>, title |-> << >>, company |-> << >>,
     description |-> << >>, skills |-> << >>, job_id |-> << >>]

\* scrape_details on a node of a parsed document, with the members title,
\* company, description, source and skills of its json; it sets no job_id
ScrapeDetails(t, n, cfg, scfg) ==
    LET j == [null |-> FALSE,
              source |-> IF job_url(t, n, cfg) # << >> THEN job_url(t, n, cfg) ELSE cfg.name,
              title |-> Field(t, n, cfg.title_tag, cfg.title_class),
              company |-> Field(t, n, cfg.company_tag, cfg.company_class),
              description |-> Field(t, n, cfg.description_tag, cfg.description_class),
              skills |-> Skills(t, n, cfg),
              job_id |-> << >>]
    IN IF scfg.keywords # << >> /\ ~KeywordMatch(j.description, j.title, scfg.keywords)
       THEN NullRecord ELSE j

\* no function taken on its own
TextIdle == args = << >> /\ ret = << >>

\* no document at hand: the state of the extractor outside its own specifications
ExtractIdle ==
    /\ tree = <<Node(RootKind, 0)>>
    /\ root = 0
    /\ site_cfg \in {c \in SiteConfigs : c.url_tag = "a"}
    /\ query = [tag |-> "", selector |-> << >>]
    /\ out = << >>
    /\ scraped = NullRecord

\* scrape_details called on an element of the document
ScrapeContainer(n) ==
    /\ root = 0
    /\ tree[n].type = "element"
    /\ root' = n
    /\ scraped' = ScrapeDetails(tree, n, site_cfg, search_cfg)
    /\ UNCHANGED <<tree, site_cfg, query, out>>
    /\ UNCHANGED <<fvars, cvars, tvars, dvars>>

InitExtract ==
    /\ FetchInit /\ DiceIdle /\ focus = "LinkedIn"
    /\ output_cfg = [max_jobs |-> DefaultMaxJobs]
    /\ search_cfg \in [target_site : {""}, keywords : KeywordLists]
    /\ sites = InitialSites
    /\ all_jobs = << >>
    /\ unique_jobs = << >>
    /\ failed = {}
    /\ main = Idle
    /\ hist = NoHist
    /\ tree \in Trees
    /\ root = 0
    /\ site_cfg \in SiteConfigs
    /\ query = [tag |-> "", selector |-> << >>]
    /\ out = << >>
    /\ scraped = NullRecord
    /\ TextIdle

ExtractNext == \E n \in 1..MaxNodes : n <= Len(tree) /\ ScrapeContainer(n)

SpecExtract == InitExtract /\ [][ExtractNext]_vars

\* the (tag, selector) pairs handed to find_nodes
Queries == [tag : {"", "a", "h2"}, selector : {<< >>, <<"t">>}]

\* find_nodes called on a node of the document
FindNodes(n) ==
    /\ root = 0
    /\ root' = n
    /\ out' = find_nodes(tree, n, query.tag, query.selector)
    /\ UNCHANGED <<tree, site_cfg, query, scraped>>
    /\ UNCHANGED <<fvars, cvars, tvars, dvars>>

InitFind ==
    /\ FetchInit /\ DiceIdle /\ focus = "LinkedIn"
    /\ CrawlIdle
    /\ tree \in Trees
    /\ root = 0
    /\ site_cfg \in {c \in SiteConfigs : c.url_tag = "a"}
    /\ query \in Queries
    /\ out = << >>
    /\ scraped = NullRecord
    /\ TextIdle

FindNext == \E n \in 1..MaxNodes : n <= Len(tree) /\ FindNodes(n)

SpecFind == InitFind /\ [][FindNext]_vars

-----------------------------------------------------------------------------
(* One element of a search page, from its extraction to all_jobs.push_back *)

\* what a detail fetch returns: an empty json (the fetch failed, or the page
\* shows no description), or a json with the description of the detail page
DetailInfos == {<< >>, << <<"R", " ", "a">> >>}

\* a merge that keeps the detail json in place of the record
MergeReplace(job, detailed_info) ==
    [NullRecord EXCEPT !.null = FALSE, !.description = detailed_info]

\* for (it : detailed_info) job[it.key()] = it.value(): a detail page with a
\* description sets description and an empty skills array
Merge(job, detailed_info) ==
    IF detailed_info = << >> THEN job
    ELSE [job EXCEPT !.description = detailed_info, !.skills = << >>]

\* one iteration of `for (auto *container : containers)`, the containers
\* coming in document order: scrape_details, the detail fetch on
\* job["source"] (its argument kept in args, what it returned in ret), the
\* merge, the push
PushContainer(n, detailed_info) ==
    /\ n > root
    /\ tree[n].type = "element"
    /\ root' = n
    /\ LET job == ScrapeDetails(tree, n, site_cfg, search_cfg)
           fetch == ~job.null /\ job.source # << >>
       IN /\ scraped' = job
          /\ args' = IF fetch THEN [job_url |-> job.source] ELSE << >>
          /\ ret' = IF fetch THEN <<detailed_info>> ELSE << >>
          /\ all_jobs' = IF job.null THEN all_jobs
                         ELSE IF fetch THEN Append(all_jobs, Merge(job, detailed_info))
                         ELSE Append(all_jobs, job)
    /\ UNCHANGED <<output_cfg, search_cfg, sites, unique_jobs, failed, main, hist>>
    /\ UNCHANGED <<tree, site_cfg, query, out>>
    /\ UNCHANGED <<fvars, dvars>>

\* one iteration of `for (auto *link : job_links)` of process_simplyhired_jobs,
\* the links being the <a> elements find_nodes collects in the document
PushJobLink(n, detailed_info) ==
    /\ n > root
    /\ \E k \in DOMAIN find_nodes(tree, 1, "a", << >>) : find_nodes(tree, 1, "a", << >>)[k] = n
    /\ root' = n
    /\ LET link_url == extract_url(tree, n, site_cfg.base_url)
           title == clean_text(extract_text(tree, n))
           job == [NullRecord EXCEPT !.null = FALSE, !.title = <<title>>, !.source = link_url]
           ok == link_url # << >> /\ title # << >>
       IN /\ scraped' = IF ok THEN job ELSE NullRecord
          /\ args' = IF ok THEN [job_url |-> link_url] ELSE << >>
          /\ ret' = IF ok THEN <<detailed_info>> ELSE << >>
          /\ all_jobs' = IF ok THEN Append(all_jobs, Merge(job, detailed_info)) ELSE all_jobs
    /\ UNCHANGED <<output_cfg, search_cfg, sites, unique_jobs, failed, main, hist>>
    /\ UNCHANGED <<tree, site_cfg, query, out>>
    /\ UNCHANGED <<fvars, dvars>>

\* bound: number of nodes of a search page whose elements are all processed
MaxPageNodes == 3

InitEmit == InitExtract /\ Len(tree) <= MaxPageNodes

EmitNext ==
    \/ \E n \in 1..MaxNodes : \E detailed_info \in DetailInfos :
           n <= Len(tree) /\ PushContainer(n, detailed_info)
    \/ \E n \in 1..MaxNodes : \E detailed_info \in DetailInfos :
           n <= Len(tree) /\ PushJobLink(n, detailed_info)

SpecEmit == InitEmit /\ [][EmitNext]_vars

-----------------------------------------------------------------------------
(* The two tests of find_nodes on one element, over drawn elements *)

\* the element names GumboTag has a value for, as far as the pages use them
KnownTags == {"div", "a", "h2", "span", "li"}

\* GumboElement::tag as the parser sets it: the GumboTag of a standard
\* element, GUMBO_TAG_UNKNOWN for any other name
GumboTag(name) == IF name \in KnownTags THEN name ELSE GUMBO_TAG_UNKNOWN

\* an element as parsed: name is its lower-case name in the document
Parsed(name, class, href, testid) ==
    [type |-> "element", tag |-> GumboTag(name), name |-> name, class |-> class,
     href |-> href, data_testid |-> testid, text |-> << >>]

MatchElements ==
    {Parsed("div", << >>, << >>, << >>),
     Parsed("div", << <<"t">> >>, << >>, << >>),
     Parsed("div", << <<"a", "t">> >>, << >>, << >>),
     Parsed("div", << <<"c", "s", "s", "-", "t">> >>, << >>, << >>),
     Parsed("a", << >>, << <<"/", "t">> >>, << >>),
     Parsed("div", << >>, << >>, << <<"t">> >>),
     Parsed("div", << >>, << >>, << <<"a", "t">> >>),
     Parsed("dhi-search-card", << >>, << >>, << >>)}

MatchTags == {"", "div", "a", "dhi-search-card"}

\* selectors: none, a plain one, data-testid="t", class="t", css-t
MatchSelectors ==
    {<< >>,
     <<"t">>,
     <<"d", "a", "t", "a", "-", "t", "e", "s", "t", "i", "d", "=", "\"", "t", "\"">>,
     <<"c", "l", "a", "s", "s", "=", "\"", "t", "\"">>,
     <<"c", "s", "s", "-", "t">>}

\* the tests find_nodes makes on one element
MatchElement ==
    /\ ret = << >>
    /\ DOMAIN args = {"e", "tag", "selector"}
    /\ ret' = <<[match_tag |-> match_tag(args.e, args.tag),
                 match_selector |-> match_selector(args.e, args.selector)]>>
    /\ UNCHANGED args
    /\ UNCHANGED <<fvars, cvars, xvars, dvars>>

InitMatch ==
    /\ FetchInit /\ DiceIdle /\ focus = "LinkedIn"
    /\ CrawlIdle
    /\ ExtractIdle
    /\ args \in [e : MatchElements, tag : MatchTags, selector : MatchSelectors]
    /\ ret = << >>

MatchNext == MatchElement

SpecMatch == InitMatch /\ [][MatchNext]_vars

-----------------------------------------------------------------------------
(* normalize_url and clean_text on their own, over drawn arguments *)

\* bound: length of the text handed to clean_text
MaxTextLen == 4

\* the href values handed to normalize_url: "", absolute URLs of the schemes
\* http, https and mailto, paths from the site root, and relative paths, one
\* of which begins with the letters http
Urls ==
    {<< >>,
     <<"h", "t", "t", "p", ":", "/", "/", "y", "/", "p">>,
     <<"h", "t", "t", "p", "s", ":", "/", "/", "y", "/", "p">>,
     <<"m", "a", "i", "l", "t", "o", ":", "a">>,
     <<"/", "a", "/", "b">>,
     <<"/">>,
     <<"a", "/", "b">>,
     <<"a">>,
     <<"h", "t", "t", "p", "d", "/", "a">>}

\* base URLs: with a path, with a directory path, without a path, with and
\* without the final slash
Bases ==
    {<<"h", "t", "t", "p", "s", ":", "/", "/", "x", ".", "c", "o", "m", "/", "c">>,
     <<"h", "t", "t", "p", "s", ":", "/", "/", "x", ".", "c", "o", "m", "/", "c", "/">>,
     <<"h", "t", "t", "p", "s", ":", "/", "/", "x", ".", "c", "o", "m">>,
     <<"h", "t", "t", "p", "s", ":", "/", "/", "x", ".", "c", "o", "m", "/">>,
     <<"h", "t", "t", "p", ":", "/", "/", "x", ".", "c", "o", "m", "/", "c", "/", "d">>,
     <<"h", "t", "t", "p", ":", "/", "/", "x", ".", "c", "o", "m">>}

\* the characters of the text handed to clean_text
TextChars == {" ", "\t", "a"}

Strings == UNION {[1..n -> TextChars] : n \in 0..MaxTextLen}

NormalizeUrl ==
    /\ ret = << >>
    /\ DOMAIN args = {"url", "base_url"}
    /\ ret' = <<normalize_url(args.url, args.base_url)>>
    /\ UNCHANGED args
    /\ UNCHANGED <<fvars, cvars, xvars, dvars>>

InitUrl ==
    /\ FetchInit /\ DiceIdle /\ focus = "LinkedIn"
    /\ CrawlIdle
    /\ ExtractIdle
    /\ args \in [url : Urls, base_url : Bases]
    /\ ret = << >>

UrlNext == NormalizeUrl

SpecUrl == InitUrl /\ [][UrlNext]_vars

\* relative URLs without a leading slash
RelativeUrls ==
    {<<"a">>, <<"b">>, <<"a", "/", "b">>, <<".", "/", "a">>, <<"a", "?", "b">>}

\* base URLs with hosts of one and two letters
ShortHostBases ==
    {<<"h", "t", "t", "p", ":", "/", "/", "x", "/", "c">>,
     <<"h", "t", "t", "p", ":", "/", "/", "x", "/", "c", "/">>,
     <<"h", "t", "t", "p", ":", "/", "/", "x">>,
     <<"h", "t", "t", "p", "s", ":", "/", "/", "x", "/", "c">>,
     <<"h", "t", "t", "p", ":", "/", "/", "x", "y", "/", "c">>}

InitHost ==
    /\ FetchInit /\ DiceIdle /\ focus = "LinkedIn"
    /\ CrawlIdle
    /\ ExtractIdle
    /\ args \in [url : RelativeUrls, base_url : Bases \cup ShortHostBases]
    /\ ret = << >>

HostNext == NormalizeUrl

\* normalize_url on relative URLs, over bases with hosts of any length
SpecHost == InitHost /\ [][HostNext]_vars

CleanText ==
    /\ ret = << >>
    /\ DOMAIN args = {"text"}
    /\ ret' = <<clean_text(args.text)>>
    /\ UNCHANGED args
    /\ UNCHANGED <<fvars, cvars, xvars, dvars>>

InitClean ==
    /\ FetchInit /\ DiceIdle /\ focus = "LinkedIn"
    /\ CrawlIdle
    /\ ExtractIdle
    /\ args \in [text : Strings]
    /\ ret = << >>

CleanNext == CleanText

SpecClean == InitClean /\ [][CleanNext]_vars

\* the sleeps of iteration i of the retry loop, for a request that failed in
\* transport, one answered 429 and one answered 403, each with its own draw
\* of std::rand() % 5
SleepsOfAttempt ==
    /\ ret = << >>
    /\ DOMAIN args = {"i", "transport", "too_many", "forbidden"}
    /\ ret' = <<[transport |-> SleepAfter([res |-> "CURLE_COULDNT_CONNECT", http_code |-> 0],
                                          args.i, args.transport),
                 too_many |-> SleepAfter([res |-> CURLE_OK, http_code |-> 429],
                                         args.i, args.too_many),
                 forbidden |-> SleepAfter([res |-> CURLE_OK, http_code |-> 403],
                                          args.i, args.forbidden)]>>
    /\ UNCHANGED args
    /\ UNCHANGED <<fvars, cvars, xvars, dvars>>

InitSleep ==
    /\ FetchInit /\ DiceIdle /\ focus = "LinkedIn"
    /\ CrawlIdle
    /\ ExtractIdle
    /\ args \in [i : 0..(Retries - 1), transport : 0..(JitterMod - 1),
                 too_many : 0..(JitterMod - 1), forbidden : 0..(JitterMod - 1)]
    /\ ret = << >>

SleepNext == SleepsOfAttempt

SpecSleep == InitSleep /\ [][SleepNext]_vars

-----------------------------------------------------------------------------


Init == FetchInit /\ DiceIdle /\ CrawlIdle /\ ExtractIdle /\ TextIdle

Next == FetchNext

\* the fetcher and the rate limiter, driven by the call sites of the crawl
Spec == Init /\ [][Next]_vars

InitCrawl == FetchInit /\ DiceIdle /\ focus = "LinkedIn" /\ CrawlInit /\ ExtractIdle /\ TextIdle

NextCrawl == CrawlNext

\* one crawl cycle after another, every fetch reduced to its outcome
SpecCrawl == InitCrawl /\ [][NextCrawl]_vars

InitPages == InitCrawl /\ search_cfg.target_site \in SiteNames

\* crawls of one target site, with the failed fetches of the cycle kept
SpecPages == InitPages /\ [][PagesNext]_vars

\* one target site, with the history of the cycle kept
InitHistory ==
    /\ FetchInit /\ DiceIdle /\ focus = "LinkedIn"
    /\ output_cfg \in [max_jobs : 1..MaxJobsArg]
    /\ search_cfg \in [target_site : SiteNames, keywords : KeywordLists]
    /\ sites = InitialSites
    /\ all_jobs = << >>
    /\ unique_jobs = << >>
    /\ failed = {}
    /\ main = Idle
    /\ hist = [NoHist EXCEPT !.on = TRUE]
    /\ ExtractIdle /\ TextIdle

HistoryNext == CrawlNext

SpecHistory == InitHistory /\ [][HistoryNext]_vars

\* the same, the program never stopping of its own: it is one thread, and
\* every sleep and every transfer (CURLOPT_TIMEOUT) ends
TerminationNext == CrawlNext

SpecTermination == InitHistory /\ [][TerminationNext]_vars /\ WF_vars(TerminationNext)

\* --max-jobs 5, all sites or one: the overall limit is what one site may give
InitQuota ==
    /\ FetchInit /\ DiceIdle /\ focus = "LinkedIn"
    /\ output_cfg = [max_jobs |-> MinJobsPerSite]
    /\ search_cfg \in [target_site : {"", "Dice"}, keywords : {<< >>}]
    /\ sites = InitialSites
    /\ all_jobs = << >>
    /\ unique_jobs = << >>
    /\ failed = {}
    /\ main = Idle
    /\ hist = NoHist
    /\ ExtractIdle /\ TextIdle

QuotaNext == CrawlNext

SpecQuota == InitQuota /\ [][QuotaNext]_vars

-----------------------------------------------------------------------------
(* fetch_dice_job_details called again and again, whatever each call meets *)

InitDice == FetchInit /\ DiceIdle /\ CrawlIdle /\ ExtractIdle /\ TextIdle

DiceNext ==
    \E transfer \in DiceTransfers : \E extraction \in DiceExtractions :
        FetchDiceJobDetailsCounters(transfer, extraction)

SpecDice == InitDice /\ [][DiceNext]_vars

-----------------------------------------------------------------------------
(* deduplicate_jobs on its own: main at the call, all_jobs any short list *)

\* bound: length of the list handed to deduplicate_jobs
MaxJobsList == 3

JobRecords ==
    [null : {FALSE}, source : {"LinkedIn", "Dice"},
     title : {<< >>, << <<"Q", "A">> >>, << <<"q", "a">> >>},
     company : {<< >>, << <<"A">> >>, << <<"a">> >>}]

JobLists == UNION {[1..n -> JobRecords] : n \in 0..MaxJobsList}

InitDedup ==
    /\ FetchInit /\ DiceIdle /\ focus = "LinkedIn"
    /\ output_cfg = [max_jobs |-> DefaultMaxJobs]
    /\ search_cfg = [target_site |-> "", keywords |-> << >>]
    /\ sites = InitialSites
    /\ all_jobs \in JobLists
    /\ unique_jobs = << >>
    /\ failed = {}
    /\ main = [Idle EXCEPT !.pc = "dedupe", !.pass = 2]
    /\ hist = NoHist
    /\ ExtractIdle /\ TextIdle

DedupNext == Deduplicate

SpecDedup == InitDedup /\ [][DedupNext]_vars

\* records whose title or company may be the separator of the fingerprint
SeparatorRecords ==
    [null : {FALSE}, source : {"Dice"},
     title : {<< >>, << <<"|">> >>, << <<"a">> >>},
     company : {<< >>, << <<"|">> >>, << <<"a">> >>}]

SeparatorLists == UNION {[1..n -> SeparatorRecords] : n \in 0..MaxJobsList}

InitSeparator ==
    /\ FetchInit /\ DiceIdle /\ focus = "LinkedIn"
    /\ output_cfg = [max_jobs |-> DefaultMaxJobs]
    /\ search_cfg = [target_site |-> "", keywords |-> << >>]
    /\ sites = InitialSites
    /\ all_jobs \in SeparatorLists
    /\ unique_jobs = << >>
    /\ failed = {}
    /\ main = [Idle EXCEPT !.pc = "dedupe", !.pass = 2]
    /\ hist = NoHist
    /\ ExtractIdle /\ TextIdle

SeparatorNext == Deduplicate

\* deduplicate_jobs on lists of records with "|" in their texts
SpecSeparator == InitSeparator /\ [][SeparatorNext]_vars


-----------------------------------------------------------------------------
(* Properties of the fetcher and the rate limiter *)

InBackoff(rl, s) == s \in DOMAIN rl /\ rl[s].backoff_mode

\* C1: fetch_page returns a body only when one of its attempts received a 2xx
\* response; a call whose attempts all ended without one does not return.
C1_ReturnOnly2xx ==
    (result.fn = "fetch_page" /\ result.kind = "returned")
        => (result.attempts >= 1 /\ Is2xx(result.body.http_code))

\* C4: at the first request of a fetch, the previous request to the same site is
\* at least the site's configured delay old.
C4_GapAtLeastConfigDelay ==
    (attempt.site # "" /\ attempt.i = 0 /\ attempt.gap >= 0)
        => attempt.gap >= ConfigDelay(attempt.site)

\* C5: every HTTP attempt, first or retry and on every fetch path, comes after a
\* run of enforce_rate_limits that no other attempt has used.
C5_AttemptAfterRateLimiter ==
    attempt.site # "" => attempt.preceded

C7_ExitAtThree ==
    \A s \in DOMAIN rate_limits :
        rate_limits[s].backoff_mode => rate_limits[s].consecutive_successes < 3

\* C7, as the code has it: a site in backoff mode returns to normal mode exactly at the
\* step that takes its success streak above 3, the fourth consecutive success.
C7_ExitAboveThree ==
    [][\A s \in DOMAIN rate_limits :
         rate_limits[s].backoff_mode
           => /\ rate_limits[s].consecutive_successes <= 3
              /\ rate_limits'[s].backoff_mode
                   <=> rate_limits'[s].consecutive_successes <= 3]_vars

\* a site has left backoff mode on its fourth consecutive success
C7_Witness ==
    \E s \in DOMAIN rate_limits :
        /\ ~rate_limits[s].backoff_mode
        /\ rate_limits[s].consecutive_successes = 4
        /\ rate_limits[s].delay > InitialDelay
        /\ attempt.site = s /\ attempt.was_backoff /\ attempt.http_code = 200

\* C8: in backoff mode the delay required before a fetch, before the random part
\* is added, is larger than the site's delay in normal mode (1.2 times it), and
\* the random part is between 0 and 4 seconds.
C8_BackoffDelayLarger ==
    (req.site # "" /\ req.backoff)
        => /\ req.required > BaseDelay(req.site)
           /\ req.jitter \in 0 .. 4

\* C9: a 2xx attempt of fetch_page adds one to the site's success streak, zeroes
\* its failure streak and ends the call; a call that saw 429, 429, 200 returns the
\* third body and leaves the success streak at 1 and the failure streak at 0.
C9_SuccessAfterRetries ==
    [][/\ (pc = "perform" /\ attempt'.res = CURLE_OK /\ Is2xx(attempt'.http_code))
          => /\ rate_limits'[call.site_name].consecutive_successes
                  = rate_limits[call.site_name].consecutive_successes + 1
             /\ rate_limits'[call.site_name].consecutive_failures = 0
             /\ pc' = "exit"
       /\ (pc = "exit" /\ call.codes = <<429, 429, 200>>)
          => /\ result'.kind = "returned"
             /\ result'.body = [attempt |-> 3, http_code |-> 200]
             /\ rate_limits'[call.site_name].consecutive_successes = 1
             /\ rate_limits'[call.site_name].consecutive_failures = 0]_vars

\* a call that saw 429, 429, 200 is about to return, the streaks at 1 and 0
C9_Witness ==
    /\ pc = "exit"
    /\ call.codes = <<429, 429, 200>>
    /\ call.buffer = [attempt |-> 3, http_code |-> 200]
    /\ rate_limits[call.site_name].consecutive_successes = 1
    /\ rate_limits[call.site_name].consecutive_failures = 0

\* C10: after a failed attempt of fetch_page, a non-2xx status or a transport
\* failure alike, the site's success streak is 0 and its failure streak is not.
C10_FailureRecorded ==
    (attempt.fn = "fetch_page" /\ ~(attempt.res = CURLE_OK /\ Is2xx(attempt.http_code)))
        => /\ rate_limits[attempt.site].consecutive_successes = 0
           /\ rate_limits[attempt.site].consecutive_failures >= 1

-----------------------------------------------------------------------------
(* Properties of the crawl controller *)

\* C2: in one crawl cycle the run-wide collection never holds more than
\* max_jobs records
C2_AtMostMaxJobs == Len(all_jobs) <= output_cfg.max_jobs

\* C3: a record is in the run-wide collection only if the title extracted
\* from its container is non-empty
C3_TitleNonEmpty == \A k \in DOMAIN all_jobs : Value(all_jobs[k].title) # << >>

\* C11: once the fetch of page p of a site has failed, no later page of that site
\* is fetched in the same cycle.
C11_NoPageAfterFailure ==
    (main.pc \in {"containers", "page_end"})
        => \A f \in failed : ~(f.site = sites[main.idx] /\ f.page < main.page)

\* lowercase title and lowercase company of a record
Key(job) == <<tolower(Value(job.title)), tolower(Value(job.company))>>

\* C12: the failure of a site's fetch discards no record and does not end the
\* cycle: all_jobs only grows within a cycle, a loop over the sites is left only
\* when the sites are exhausted or max_jobs is reached, after a site the next one
\* is taken up and crawled, and what the cycle emits has a record for every key
\* collected.
C12_FailureKeepsRecords ==
    [][/\ main.pc # "saved"
            => /\ Len(all_jobs') >= Len(all_jobs)
               /\ SubSeq(all_jobs', 1, Len(all_jobs)) = all_jobs
       /\ (main.pc = "page" /\ main'.pc = "site_end") => all_jobs' = all_jobs
       /\ (main.pc # "dedupe" /\ main'.pc = "dedupe")
            => \/ main.pc = "site_end" /\ Len(all_jobs) >= output_cfg.max_jobs
               \/ main.pc = "loop" /\ main.idx > Len(sites)
       /\ (main.pc = "site_end" /\ Len(all_jobs) < output_cfg.max_jobs)
            => main' = [Idle EXCEPT !.pc = "loop", !.pass = main.pass, !.idx = main.idx + 1]
       /\ (main.pc = "loop" /\ main.idx <= Len(sites) /\ Active(sites[main.idx]))
            => (main'.pc = "page" /\ main'.page = 1 /\ main'.idx = main.idx)
       /\ main'.pc = "saved"
            => \A k \in DOMAIN all_jobs :
                 \E u \in DOMAIN unique_jobs' : Key(unique_jobs'[u]) = Key(all_jobs[k])]_vars

\* in the second loop over the sites the first page of a site has just failed (the
\* site ends on page 1 below the cap), no record is from that site, and the
\* records of the other sites are still there
C12_Witness ==
    /\ main.pc = "site_end" /\ main.pass = 2 /\ main.page = 1
    /\ main.idx < Len(sites)
    /\ Len(all_jobs) < Cap
    /\ all_jobs # << >>
    /\ \A k \in DOMAIN all_jobs : all_jobs[k].source # sites[main.idx]

\* C13: what a cycle emits never holds two records with the same lowercase title
\* and lowercase company.
C13_EmittedUnique ==
    main.pc = "saved"
        => \A i, j \in DOMAIN unique_jobs :
             i # j => Key(unique_jobs[i]) # Key(unique_jobs[j])

\* a cycle has emitted two records or more after dropping duplicates
C13_Witness ==
    /\ main.pc = "saved"
    /\ Len(unique_jobs) >= 2
    /\ Len(unique_jobs) < Len(all_jobs)

-----------------------------------------------------------------------------
(* Properties of deduplicate_jobs *)

\* u is a subsequence of a
IsSubsequence(u, a) ==
    \E f \in [1..Len(u) -> 1..Len(a)] :
        /\ \A i, j \in 1..Len(u) : i < j => f[i] < f[j]
        /\ \A i \in 1..Len(u) : a[f[i]] = u[i]

\* the first position in a of a record with the key of a[k] is k
FirstOfKey(a, k) == \A j \in 1..(k - 1) : Key(a[j]) # Key(a[k])

\* C14: deduplicate_jobs returns a subsequence of its input without two records
\* of the same lowercase title and company, and keeps of every such key the
\* first input record and no other.
C14_KeepsFirstOfEachKey ==
    main.pc = "saved"
        => /\ IsSubsequence(unique_jobs, all_jobs)
           /\ \A i, j \in DOMAIN unique_jobs :
                 i # j => Key(unique_jobs[i]) # Key(unique_jobs[j])
           /\ Len(unique_jobs) = Cardinality({Key(all_jobs[k]) : k \in DOMAIN all_jobs})
           /\ \A u \in DOMAIN unique_jobs :
                 \E k \in DOMAIN all_jobs : FirstOfKey(all_jobs, k) /\ all_jobs[k] = unique_jobs[u]

\* two records that differ in letter case only went in, the first came out
C14_Witness ==
    /\ main.pc = "saved"
    /\ Len(all_jobs) = 2
    /\ all_jobs[1].title = << <<"Q", "A">> >> /\ all_jobs[1].company = << <<"a">> >>
    /\ all_jobs[2].title = << <<"q", "a">> >> /\ all_jobs[2].company = << <<"A">> >>
    /\ all_jobs[1].source # all_jobs[2].source
    /\ unique_jobs = <<all_jobs[1]>>

\* position in a of the first record equal to r
FirstIndex(a, r) == CHOOSE k \in DOMAIN a : a[k] = r /\ \A j \in 1..(k - 1) : a[j] # r

\* C15: deduplicating the result of deduplicate_jobs changes nothing, and the
\* records kept stand in the order they have in the input.
C15_IdempotentInOrder ==
    main.pc = "saved"
        => /\ deduplicate_jobs(unique_jobs) = unique_jobs
           /\ \A u \in DOMAIN unique_jobs : \E k \in DOMAIN all_jobs : all_jobs[k] = unique_jobs[u]
           /\ \A i, j \in DOMAIN unique_jobs :
                 i < j => FirstIndex(all_jobs, unique_jobs[i]) < FirstIndex(all_jobs, unique_jobs[j])

\* three records went in, the third a duplicate of the first, two came out
C15_Witness ==
    /\ main.pc = "saved"
    /\ Len(all_jobs) = 3
    /\ Key(all_jobs[1]) = Key(all_jobs[3])
    /\ Key(all_jobs[1]) # Key(all_jobs[2])
    /\ unique_jobs = <<all_jobs[1], all_jobs[2]>>


-----------------------------------------------------------------------------
(* Properties of the field extractor and the selector engine *)

\* the text scrape_details extracts for a field of the container at hand
Extracted(tag, class) == Value(Field(tree, root, tag, class))

\* some keyword of the filter occurs, letter case aside, in the text
Occurs(text) ==
    \E k \in DOMAIN search_cfg.keywords :
        \E i \in 0..Len(text) :
            /\ i + Len(search_cfg.keywords[k]) <= Len(text)
            /\ \A c \in 1..Len(search_cfg.keywords[k]) :
                   ToLower(text[i + c]) = ToLower(search_cfg.keywords[k][c])

\* C16: with a non-empty keyword list scrape_details returns the null record
\* exactly when no keyword occurs, letter case aside, in the extracted title
\* or in the extracted description; with an empty list it never returns the
\* null record.
C16_KeywordFilter ==
    root # 0 =>
        /\ search_cfg.keywords = << >> => ~scraped.null
        /\ search_cfg.keywords # << >> =>
               (scraped.null <=>
                    /\ ~Occurs(Extracted(site_cfg.title_tag, site_cfg.title_class))
                    /\ ~Occurs(Extracted(site_cfg.description_tag,
                                         site_cfg.description_class)))

\* a container whose description "R a" holds no keyword of the list ["qA"] is
\* filtered out
C16_Witness ==
    /\ root # 0
    /\ search_cfg.keywords = << <<"q", "A">> >>
    /\ Extracted(site_cfg.description_tag, site_cfg.description_class) = <<"R", " ", "a">>
    /\ scraped.null


\* the elements of the subtree of node n that the tag and the selector match
Matches(n, tag, selector) ==
    {i \in 1..Len(tree) :
        /\ InSubtree(tree, n, i)
        /\ tree[i].type = "element"
        /\ match_tag(tree[i], tag)
        /\ match_selector(tree[i], selector)}

\* the first node of a set in document order, 0 for none
Least(S) == IF S = {} THEN 0 ELSE CHOOSE i \in S : \A k \in S : i <= k

\* the href of element e if it has one, otherwise the href of the first <a>
\* element at or below e
HrefOf(e) ==
    IF e = 0 THEN << >>
    ELSE IF Value(tree[e].href) # << >> THEN Value(tree[e].href)
    ELSE IF Matches(e, "a", << >>) = {} THEN << >>
    ELSE Value(tree[Least(Matches(e, "a", << >>))].href)

TitleElement == Least(Matches(root, site_cfg.title_tag, site_cfg.title_class))

UrlElement ==
    IF site_cfg.url_tag = "" THEN root
    ELSE Least(Matches(root, site_cfg.url_tag, site_cfg.url_class))

\* C17, as stated: the URL stored as source comes from the title element, its
\* own href or else the href of the first link below it, put after the base
\* URL of the site.
C17_SourceFromTitleElement ==
    (root # 0 /\ ~scraped.null) =>
        /\ HrefOf(TitleElement) # << >> =>
               scraped.source = site_cfg.base_url \o HrefOf(TitleElement)
        /\ scraped.source # site_cfg.name =>
               scraped.source = site_cfg.base_url \o HrefOf(TitleElement)

\* C17, amended: the URL comes from the first element in document order that
\* matches the URL selector of the descriptor, or from the container when the
\* descriptor has no URL selector: the href of that element, or else the href
\* of the first <a> element below it, put after the base URL of the site (every
\* href of the documents is a path from the site root); the source stays the
\* site name when there is no such href.
C17_SourceFromUrlElement ==
    (root # 0 /\ ~scraped.null) =>
        scraped.source = IF HrefOf(UrlElement) = << >> THEN site_cfg.name
                         ELSE site_cfg.base_url \o HrefOf(UrlElement)

\* a container whose h2.t wraps <a href="/j">, under a descriptor whose URL
\* selector is its title selector, yields <base>/j
C17_Witness ==
    /\ root # 0 /\ ~scraped.null
    /\ site_cfg.url_tag = "h2"
    /\ UrlElement # 0 /\ UrlElement = TitleElement
    /\ tree[UrlElement].href = << >>
    /\ scraped.source = BaseUrl \o <<"/", "j">>


\* the member a field selector gives when its first match in document order
\* inside the container is the one that counts
FromFirstMatch(tag, selector) ==
    IF Matches(root, tag, selector) = {} THEN << >>
    ELSE <<clean_text(extract_text(tree, Least(Matches(root, tag, selector))))>>

\* C18: the title, the company and the description of a record are the
\* cleaned text of the first element in document order, inside the container,
\* that matches the selector of the field; the member is absent when no element
\* of the container matches.
C18_FirstMatchWins ==
    (root # 0 /\ ~scraped.null) =>
        /\ scraped.title = FromFirstMatch(site_cfg.title_tag, site_cfg.title_class)
        /\ scraped.company = FromFirstMatch(site_cfg.company_tag, site_cfg.company_class)
        /\ scraped.description =
               FromFirstMatch(site_cfg.description_tag, site_cfg.description_class)

\* a container with two title elements of different text: the record has the
\* text of the first one
C18_Witness ==
    /\ root # 0 /\ ~scraped.null
    /\ \E i, k \in Matches(root, site_cfg.title_tag, site_cfg.title_class) :
           /\ i < k
           /\ i = TitleElement
           /\ clean_text(extract_text(tree, k)) # clean_text(extract_text(tree, i))
           /\ scraped.title = <<clean_text(extract_text(tree, i))>>


\* C19: find_nodes returns elements of the subtree it was started on only, in
\* document order and each at most once, and it returns every element of that
\* subtree that the tag and the selector match, those below another match
\* included; so a match stands before every match below it.
C19_PreOrderAllMatches ==
    root # 0 =>
        /\ \A k \in DOMAIN out :
               InSubtree(tree, root, out[k]) /\ tree[out[k]].type = "element"
        /\ \A k \in DOMAIN out : \A l \in DOMAIN out : k < l => out[k] < out[l]
        /\ \A k \in DOMAIN out : \A l \in DOMAIN out :
               (out[k] # out[l] /\ InSubtree(tree, out[k], out[l])) => k < l
        /\ {out[k] : k \in DOMAIN out} = Matches(root, query.tag, query.selector)

\* a match below another match: both are returned, the upper one first
C19_Witness ==
    /\ root # 0
    /\ \E k \in DOMAIN out : \E l \in DOMAIN out :
           /\ k < l
           /\ InSubtree(tree, out[k], out[l])
           /\ \E i \in 1..Len(tree) : \E m \in DOMAIN out :
                  ~InSubtree(tree, out[k], i) /\ out[m] = i /\ l < m


\* terms of the vocabulary of extract_skills, in the letters of the model
common_skills == {<<"R">>, <<"A", "I">>}

\* C20, as stated: without a skills selector the skills of a record are the
\* terms of the vocabulary that occur, letter case aside, in its description,
\* each listed once.
C20_SkillsFromVocabulary ==
    (root # 0 /\ ~scraped.null /\ site_cfg.skills_tag = "") =>
        /\ {scraped.skills[k] : k \in DOMAIN scraped.skills} =
               {skill \in common_skills :
                    Find(tolower(Value(scraped.description)), tolower(skill))}
        /\ \A k \in DOMAIN scraped.skills : \A l \in DOMAIN scraped.skills :
               scraped.skills[k] = scraped.skills[l] => k = l


\* C21, as stated: every record the extractor returns carries a job_id (one
\* that depends on its site, title and company only).
C21_RecordCarriesJobId ==
    (root # 0 /\ ~scraped.null) => scraped.job_id # << >>


-----------------------------------------------------------------------------
(* Properties of normalize_url and clean_text *)

\* the URL begins with a scheme: letters, then a colon, before any slash
IsAbsolute(url) ==
    \E p \in 2..Len(url) :
        url[p] = ":" /\ \A q \in 1..(p - 1) : url[q] \notin {"/", ":"}

\* 1-based positions of the slashes of the base URL after its "://"
PathSlashes(base) ==
    {p \in 1..Len(base) :
        /\ base[p] = "/"
        /\ \E q \in 1..(p - 3) : SubSeq(base, q, q + 2) = <<":", "/", "/">>}

\* scheme and host of the base URL
SchemeHost(base) ==
    IF PathSlashes(base) = {} THEN base
    ELSE SubSeq(base, 1, Least(PathSlashes(base)) - 1)

\* the base URL up to the last slash of its path, "/" when it has no path
Directory(base) ==
    IF PathSlashes(base) = {} THEN base \o <<"/">>
    ELSE SubSeq(base, 1, CHOOSE p \in PathSlashes(base) : \A q \in PathSlashes(base) : q <= p)

\* C22, as stated: normalize_url returns an absolute URL unchanged, puts a
\* path from the site root after the scheme and host of the base, and puts
\* any other relative URL after the directory of the base.
C22_NormalizeUrl ==
    (ret # << >> /\ DOMAIN args = {"url", "base_url"} /\ args.url # << >>) =>
        ret[1] = IF IsAbsolute(args.url) THEN args.url
                 ELSE IF args.url[1] = "/" THEN SchemeHost(args.base_url) \o args.url
                 ELSE Directory(args.base_url) \o args.url

\* C36, as stated: a relative URL without a leading slash comes back as the
\* base truncated after the last slash of its path, followed by the URL, and
\* as base, "/" and the URL when the base has no path.
C36_RelativeAgainstDirectory ==
    (/\ ret # << >> /\ DOMAIN args = {"url", "base_url"} /\ args.url # << >>
     /\ ~IsAbsolute(args.url) /\ args.url[1] # "/")
        => ret[1] = Directory(args.base_url) \o args.url


\* C23: clean_text applied to a text it returned returns that text unchanged.
C23_CleanTextIdempotent ==
    (ret # << >> /\ DOMAIN args = {"text"}) => clean_text(ret[1]) = ret[1]

\* a text with a run of two whitespace characters comes back with one space
C23_Witness ==
    /\ ret # << >> /\ DOMAIN args = {"text"}
    /\ args.text = <<"a", " ", "\t", "a">>
    /\ ret[1] = <<"a", " ", "a">>


\* C24: at every attempt index and for all draws of the jitter, the sleep after
\* a transport failure is shorter than the sleep after a 429, which is shorter
\* than the sleep after a 403; and the sleeps after a 429 and after a 403 are
\* longer at the next attempt index, whatever is drawn there.
C24_SleepOrder ==
    (ret # << >> /\ DOMAIN args = {"i", "transport", "too_many", "forbidden"}) =>
        /\ ret[1].transport < ret[1].too_many
        /\ ret[1].too_many < ret[1].forbidden
        /\ \A jitter \in 0..(JitterMod - 1) :
               /\ ret[1].too_many <
                      SleepAfter([res |-> CURLE_OK, http_code |-> 429], args.i + 1, jitter)
               /\ ret[1].forbidden <
                      SleepAfter([res |-> CURLE_OK, http_code |-> 403], args.i + 1, jitter)

\* the closest the three sleeps come: the first attempt, the greatest draw for
\* the shorter sleep and the least for the longer one
C24_Witness ==
    /\ ret # << >> /\ DOMAIN args = {"i", "transport", "too_many", "forbidden"}
    /\ args.i = 0 /\ args.transport = JitterMod - 1 /\ args.too_many = 0
    /\ ret[1].transport = 7
    /\ ret[1].too_many = 63


-----------------------------------------------------------------------------
(* Properties of the cycle, on its history *)

\* the place in all_jobs of the first record with the key of record r
FirstWithKey(r) ==
    CHOOSE i \in DOMAIN all_jobs :
        Key(all_jobs[i]) = Key(r) /\ \A k \in 1..(i - 1) : Key(all_jobs[k]) # Key(r)

\* C25, as stated: the records of a site stand in all_jobs in the order of the
\* pages they were found on, and so do the records of the deduplicated output
\* (one site is selected, so all records are records of that site).
C25_DiscoveryOrder ==
    hist.on =>
        /\ \A i \in DOMAIN all_jobs : \A k \in DOMAIN all_jobs :
               i < k => hist.origin[i] <= hist.origin[k]
        /\ main.pc = "saved" =>
               \A i \in DOMAIN unique_jobs : \A k \in DOMAIN unique_jobs :
                   i < k => hist.origin[FirstWithKey(unique_jobs[i])]
                                <= hist.origin[FirstWithKey(unique_jobs[k])]


\* C26: every cycle that has entered its first loop over the sites reaches the
\* call of deduplicate_jobs, whatever the fetches return and the pages hold.
C26_CycleTerminates == (main.pc = "loop" /\ main.pass = 1) ~> (main.pc = "dedupe")

\* the longest cycle: every page of the site fetched in both loops
C26_Witness ==
    /\ hist.on /\ main.pc = "dedupe"
    /\ Cardinality(hist.fetched) = 2 * MaxPages


\* C27, as stated: within one cycle no search page of a site is fetched twice.
C27_PageFetchedOnce ==
    hist.on =>
        \A a \in hist.fetched : \A b \in hist.fetched :
            (a.site = b.site /\ a.page = b.page) => a = b


\* the site a record of all_jobs came from: a record made of a job link
\* carries the link as its source, and only SimplyHired makes such records
SiteOf(job) == IF job.source \in SiteNames THEN job.source ELSE "SimplyHired"

\* the records the site at hand has contributed, counted in the list jobs
Own(jobs) == Cardinality({i \in DOMAIN jobs : SiteOf(jobs[i]) = sites[main.idx]})

\* C28, as stated: in the first loop over the sites a site processor gives up
\* the remaining elements of a page, or the remaining pages, for the limit
\* only when its own site has contributed jobs_per_site records.
C28_PerSiteQuota ==
    [][main.pass = 1 =>
          /\ (main.pc = "containers" /\ main.remaining > 1 /\ main'.pc = "page_end")
                 => Own(all_jobs') >= jobs_per_site
          /\ (main.pc = "page_end" /\ main.page < MaxPages /\ main'.pc = "site_end")
                 => Own(all_jobs) >= jobs_per_site]_vars


-----------------------------------------------------------------------------
(* Properties of one call of fetch_page *)

\* consecutive_successes of the site of the call at hand, in the map rl
Successes(rl) ==
    IF call.site_name \in DOMAIN rl THEN rl[call.site_name].consecutive_successes ELSE 0

\* C29: a call of fetch_page that has returned or thrown made between one and
\* max_retries attempts; while it runs it has made at most max_retries, a 2xx
\* status is the status of its last attempt and ends the loop; and a step of
\* the call that records a success with the rate limiter is the first to
\* bring a 2xx status.
C29_AttemptsOfOneCall ==
    /\ [](result.fn = "fetch_page" => result.attempts \in 1..Retries)
    /\ [](call.fn = "fetch_page" =>
             /\ Len(call.codes) <= call.retries
             /\ \A k \in DOMAIN call.codes :
                    Is2xx(call.codes[k]) => k = Len(call.codes) /\ pc = "exit")
    /\ [][(call.fn = "fetch_page" /\ Successes(rate_limits') > Successes(rate_limits))
             => \A k \in DOMAIN call.codes : ~Is2xx(call.codes[k])]_vars

\* a call whose last allowed attempt brought the 2xx status, recorded as a success
C29_Witness ==
    /\ call.fn = "fetch_page" /\ pc = "exit"
    /\ Len(call.codes) = Retries
    /\ Is2xx(call.codes[Retries])
    /\ Successes(rate_limits) >= 1


-----------------------------------------------------------------------------
(* Properties of the records pushed to all_jobs *)

\* C30, as stated: with a keyword list, every record pushed to all_jobs, from
\* where the output takes its records unchanged, has a keyword, letter case
\* aside, in its title or in its description as pushed.
C30_FilterOnFinalContent ==
    search_cfg.keywords # << >> =>
        \A i \in DOMAIN all_jobs :
            Occurs(Value(all_jobs[i].title)) \/ Occurs(Value(all_jobs[i].description))


\* C31, as stated: the detail fetch of a container is never called on the
\* site name that scrape_details leaves in source when it found no URL.
C31_DetailOnlyWithUrl ==
    (root # 0 /\ DOMAIN args = {"job_url"}) => args.job_url # site_cfg.name


\* the record pushed last
Last(jobs) == jobs[Len(jobs)]

-----------------------------------------------------------------------------
(* Properties of the rate-limit map *)

\* C33: a step of the fetcher leaves every site other than the site of the
\* fetch_page call at hand as it was: no entry is made for it, its mode, its
\* two streaks and its delay stay, and its last request is not set anew (its
\* age does not go down); and fetch_page called without a site name would
\* change nothing in the map, neither at its head nor after an attempt.
C33_SitesIsolated ==
    /\ [][\A b \in SiteNames :
             (b # call.site_name /\ b # call'.site_name) =>
                 /\ b \in DOMAIN rate_limits' <=> b \in DOMAIN rate_limits
                 /\ b \in DOMAIN rate_limits =>
                        /\ rate_limits'[b].backoff_mode = rate_limits[b].backoff_mode
                        /\ rate_limits'[b].consecutive_successes
                               = rate_limits[b].consecutive_successes
                        /\ rate_limits'[b].consecutive_failures
                               = rate_limits[b].consecutive_failures
                        /\ rate_limits'[b].delay = rate_limits[b].delay
                        /\ rate_limits'[b].last_request >= rate_limits[b].last_request]_vars
    /\ [](/\ \A o \in Outcomes : RecordOutcome(rate_limits, "", o) = rate_limits
          /\ \A jitter \in RandMod(JitterMod) :
                 LimitAtEntry(rate_limits, "", jitter).rl = rate_limits)

\* SimplyHired has just been refused and is in backoff mode with a doubled
\* delay, while Dice keeps the success and the delay of its earlier fetch
C33_Witness ==
    /\ call.site_name = "SimplyHired"
    /\ DOMAIN rate_limits = {"Dice", "SimplyHired"}
    /\ rate_limits["SimplyHired"].backoff_mode
    /\ rate_limits["SimplyHired"].delay = 2 * InitialDelay
    /\ rate_limits["Dice"].consecutive_successes = 1
    /\ ~rate_limits["Dice"].backoff_mode
    /\ rate_limits["Dice"].delay = InitialDelay


\* C34: in every entry of the map the two streaks are not negative and not
\* both above zero; a new entry starts with the initial delay; and in every
\* step the delay of an entry stays or doubles, and it doubles only in a step
\* that takes the entry from normal to backoff mode.
C34_StreaksAndDelay ==
    /\ [](\A s \in DOMAIN rate_limits :
             /\ rate_limits[s].consecutive_successes >= 0
             /\ rate_limits[s].consecutive_failures >= 0
             /\ ~(rate_limits[s].consecutive_successes > 0
                    /\ rate_limits[s].consecutive_failures > 0))
    /\ [][\A s \in DOMAIN rate_limits' :
             IF s \in DOMAIN rate_limits
             THEN \/ rate_limits'[s].delay = rate_limits[s].delay
                  \/ /\ rate_limits'[s].delay = 2 * rate_limits[s].delay
                     /\ ~rate_limits[s].backoff_mode
                     /\ rate_limits'[s].backoff_mode
             ELSE rate_limits'[s].delay = InitialDelay]_vars

\* a site refused twice in one call: the failure streak is 2, the success
\* streak 0, and the delay was doubled once, by the first refusal
C34_Witness ==
    \E s \in DOMAIN rate_limits :
        /\ rate_limits[s].consecutive_failures = 2
        /\ rate_limits[s].consecutive_successes = 0
        /\ rate_limits[s].backoff_mode
        /\ rate_limits[s].delay = 2 * InitialDelay
        /\ call.site_name = s
        /\ call.codes = <<429, 403>>
        /\ nfetch = 2


-----------------------------------------------------------------------------
(* deduplicate_jobs and the separator of its fingerprint *)

\* C35, as stated: deduplicate_jobs drops a record only if an earlier record
\* of the input has the same lowercase title and the same lowercase company;
\* a record that is the first with its pair is kept.
C35_DropsOnlyEqualPairs ==
    main.pc = "saved" =>
        \A k \in DOMAIN all_jobs :
            FirstOfKey(all_jobs, k) => \E u \in DOMAIN unique_jobs : unique_jobs[u] = all_jobs[k]


-----------------------------------------------------------------------------
(* Properties of the tests of find_nodes on one element *)

\* C37, as stated: the tag test holds exactly when the selector tag is empty
\* or is the lower-case name of the element, whatever that name is.
C37_TagMatch ==
    (ret # << >> /\ DOMAIN args = {"e", "tag", "selector"}) =>
        (ret[1].match_tag <=> (args.tag = "" \/ args.tag = args.e.name))


\* needle occurs in hay
IsSubstring(needle, hay) ==
    \E i \in 0..(Len(hay) - Len(needle)) : \A c \in 1..Len(needle) : hay[i + c] = needle[c]

TestidForm == <<"d", "a", "t", "a", "-", "t", "e", "s", "t", "i", "d", "=", "\"">>

ClassForm == <<"c", "l", "a", "s", "s", "=", "\"">>

\* the predicate is prefix, a value and a closing quote
HasForm(selector, prefix) ==
    /\ Len(selector) > Len(prefix)
    /\ SubSeq(selector, 1, Len(prefix)) = prefix
    /\ selector[Len(selector)] = "\""

\* the value of a predicate of that form
Inner(selector, prefix) == SubSeq(selector, Len(prefix) + 1, Len(selector) - 1)

\* the attribute is there and the text occurs in its value
In(e, name, text) == e[name] # << >> /\ IsSubstring(text, e[name][1])

\* C38, as stated: an empty predicate matches every element; a predicate that
\* names an attribute matches exactly the elements that have the attribute
\* with the value of the predicate occurring in its value; any other
\* predicate matches exactly the elements that have a class attribute with
\* the predicate occurring in its value.
C38_PredicateAsStated ==
    (ret # << >> /\ DOMAIN args = {"e", "tag", "selector"}) =>
        (ret[1].match_selector <=>
            IF args.selector = << >> THEN TRUE
            ELSE IF HasForm(args.selector, TestidForm)
            THEN In(args.e, "data_testid", Inner(args.selector, TestidForm))
            ELSE IF HasForm(args.selector, ClassForm)
            THEN In(args.e, "class", Inner(args.selector, ClassForm))
            ELSE In(args.e, "class", args.selector))

\* C38, amended: an empty predicate matches every element; a predicate
\* data-testid="v" matches exactly the elements whose data-testid attribute
\* has the value v; a predicate class="v" matches exactly the elements with v
\* occurring in the value of their class attribute (v without quotation mark
\* in both forms); a predicate that holds css- and neither class=" nor
\* data-testid= matches exactly the elements with the whole predicate
\* occurring in the value of their class attribute; and a predicate that
\* holds none of data-testid=, class= and css- matches exactly the elements
\* with the predicate occurring in the value of one of their attributes,
\* class or not.
C38_PredicateMatch ==
    (ret # << >> /\ DOMAIN args = {"e", "tag", "selector"}) =>
        LET e == args.e
            selector == args.selector
            m == ret[1].match_selector
            testid == IsSubstring(<<"d", "a", "t", "a", "-", "t", "e", "s", "t", "i", "d", "=">>, selector)
            class == IsSubstring(<<"c", "l", "a", "s", "s", "=">>, selector)
            quoted == IsSubstring(ClassForm, selector)
            css == IsSubstring(<<"c", "s", "s", "-">>, selector)
        IN  /\ selector = << >> => m
            /\ (/\ HasForm(selector, TestidForm)
                /\ ~IsSubstring(<<"\"">>, Inner(selector, TestidForm)))
                   => (m <=> /\ e.data_testid # << >>
                             /\ e.data_testid[1] = Inner(selector, TestidForm))
            /\ (/\ HasForm(selector, ClassForm) /\ ~testid
                /\ ~IsSubstring(<<"\"">>, Inner(selector, ClassForm)))
                   => (m <=> In(e, "class", Inner(selector, ClassForm)))
            /\ (css /\ ~quoted /\ ~testid) => (m <=> In(e, "class", selector))
            /\ (selector # << >> /\ ~testid /\ ~class /\ ~css)
                   => (m <=> \E name \in {"class", "href", "data_testid"} :
                                In(e, name, selector))

\* the predicate t matches <a href="/t">, an element without class attribute
C38_Witness ==
    /\ ret # << >> /\ DOMAIN args = {"e", "tag", "selector"}
    /\ args.selector = <<"t">>
    /\ args.e.class = << >>
    /\ args.e.href = << <<"/", "t">> >>
    /\ ret[1].match_selector

-----------------------------------------------------------------------------
(* Properties of the statics of fetch_dice_job_details *)

\* C39: a call of fetch_dice_job_details pauses and clears the failure
\* counter at its start exactly when more than 3 calls in a row returned no
\* description since the last call that returned one (or since the last
\* pause): each failed call counts once, and a success starts the run anew
C39_ResetAfterFourFailures ==
    dice.calls > 0 => (dice.reset <=> dice.before > 3)

=============================================================================
